---- MODULE Spec2Model ----
(***************************************************************************)
(* ctxd: the indexing orchestrator (ctxd/indexer.py), the vector store     *)
(* with its search and query cache (ctxd/store.py), and the result         *)
(* enhancer (ctxd/result_enhancer.py).                                     *)
(*                                                                         *)
(* Spec       index_path runs (serial and concurrent) over a small project *)
(*            directory whose files are edited between runs.               *)
(* SpecStore  sequences of VectorStore calls (add_chunks, delete_by_path,  *)
(*            delete_by_branch, clear_all, search) on one store.           *)
(* SpecSearch VectorStore.search calls with every combination of mode,     *)
(*            query inputs and filters on a store holding a few rows.      *)
(* SpecEnhance ResultEnhancer calls (ctxd/result_enhancer.py): deduplicate,*)
(*            rerank_by_recency, expand_context on small result lists, and *)
(*            ctx_search (ctxd/mcp_server.py), which composes them.        *)
(* SpecRun    one index_path run with a progress callback, with files of   *)
(*            up to three chunks: the progress events, the embedding queue *)
(*            and its lock under every interleaving of the workers.        *)
(* SpecDiscover file discovery (_discover_files) over a small directory    *)
(*            with a .gitignore of a few pattern lines.                    *)
(* SpecChunk  the markdown and the paragraph fallback chunkers             *)
(*            (ctxd/chunkers) on every short content.                      *)
(* SpecSplit  the loops of the fallback chunker and of the word splitter   *)
(*            of the tree-sitter chunker, step by step, under fairness.    *)
(* SpecTable  the lazy VectorStore.table property called from several      *)
(*            threads at once.                                             *)
(* SpecDelete delete_by_path line by line while other threads add and      *)
(*            delete rows of the same table.                               *)
(* SpecWatch  the file watcher (ctxd/watcher.py): the observer thread      *)
(*            queueing file events and the loop thread running             *)
(*            process_pending_changes, under every interleaving.           *)
(***************************************************************************)
EXTENDS Integers, Sequences, FiniteSets, Bags, TLC

\* ---------------------------------------------------------------- bounds
MaxRuns == 2
MaxFailures == 1
BatchSize == 2
MaxRows == 2
MaxSearches == 3
MaxResults == 3

\* ---------------------------------------------------------------- values
Paths == {"a.py", "b.py"}
Branches == {"main", "dev"}
NoBranch == "None"
BranchTags == Branches \cup {NoBranch}
Absent == "absent"
\* contents a file on disk can have: whitespace only, larger than max_file_size,
\* and two versions of ordinary text
Contents(p) == IF p = "a.py" THEN {"blank", "v1", "v2"} ELSE {"big", "v2"}
\* path arguments of index_path: the project directory, or one file
Targets == {"dir", "a.py"}
Main == "main_thread"
Workers == Paths \cup {Main}
NoHash == "NoneHash"
EmptyHash == ""

\* chunker.chunk(content, path): the number of chunks of a non-blank content
NumChunks(c) ==
    CASE c = "v1" -> 1
      [] c = "v2" -> 2
      [] c = "v3" -> 3
      [] c = "big" -> 2
      [] OTHER -> 0

\* hashlib.sha256 of the file's bytes (collision-free on the modelled contents)
Sha256(c) ==
    CASE c = "v1" -> "h1"
      [] c = "v2" -> "h2"
      [] c = "v3" -> "h3"
      [] c = "big" -> "hbig"
      [] c = "blank" -> "hblank"
      [] OTHER -> EmptyHash

\* content.strip() is empty
IsBlank(c) == c = "blank"

\* file_size > max_size
TooLarge(c) == c = "big"

VARIABLES
    disk,            \* path -> content or Absent
    table,           \* bag of stored chunk rows (the LanceDB table)
    cache,           \* query cache: set of [key, result] entries
    cache_enabled,   \* VectorStore.cache_enabled
    lastSearch,      \* the last search call: query, result, and the uncached answer
    nsearch,         \* searches so far (bounded)
    pc,              \* index_path: idle, indexing, final_store, cleanup, done, raised
    run,             \* number of index_path calls so far (bounded)
    target,          \* argument path of the running / last call
    force,           \* argument force
    current_branch,  \* Indexer.current_branch
    cfg,             \* configuration read by the run
    files,           \* files found by this run's discovery
    in_parallel,     \* Indexer._in_parallel_mode
    fpc,             \* per file: position of its processing
    fres,            \* per file: result of its processing
    fhash,           \* per file: file_hash computed in _index_file
    next,            \* per file: next chunk to queue
    queue,           \* Indexer._embedding_queue
    held,            \* per thread: queue_copy held between drain and store
    nfail,           \* failures injected so far (bounded)
    table0,          \* history: the table when the run started
    failed,          \* history: files whose own processing hit a failure
    batchFail,       \* history: a batch flush failed in this run
    cleanFail,       \* history: the cleanup pass failed in this run
    dropped,         \* history: queue items of failed batches of this run
    inserted,        \* history: bag of the rows inserted in this run
    afterDrop,       \* history: queue items stored by a batch after a failed one
    order,           \* history per path: delete / insert order in this run
    edited,          \* history: the disk was edited since the last run ended
    repeat,          \* history: this run repeats a clean previous run on unedited files
    call,            \* search / result enhancer: the arguments of the call
    outcome,         \* search / result enhancer: what the call returned or raised
    issued,          \* search: the queries the call handed to the storage engine
    reporter,        \* index_path: the ProgressReporter of the run, if any
    events,          \* the ProgressEvents the progress callback has received
    completed,       \* futures of the pool in the order they finished
    early,           \* as_completed: the futures finished when it was called
    lock,            \* Indexer._embedding_lock: the thread that holds it, or Free
    table_names,     \* db.table_names(): the tables of the database
    table_handle,    \* VectorStore._table
    tpc,             \* caller -> its position in the table property
    seen,            \* caller -> whether the names it listed hold the table's
    creators,        \* history: the callers whose create_table succeeded
    pending_changes, \* CodeChangeHandler._pending_changes: path -> event type
    last_event_time, \* CodeChangeHandler._last_event_time
    clock,           \* time.time(), in tenths of a second
    pass,            \* process_pending_changes: the items left to handle, and where
                     \* the pass began in handled
    handled,         \* history: the items the passes handled, each with the number
                     \* of changes queued by then
    arrived,         \* history: the changes that were queued, each with its time
    os_events,       \* the file system events the observer has not dispatched yet
    observer         \* the observer thread: the _queue_change calls it has to make

storeVars == <<table, cache, cache_enabled, lastSearch, nsearch>>
runVars == <<pc, run, target, force, current_branch, cfg, files, in_parallel,
             fpc, fres, fhash, next, queue, held, nfail>>
histVars == <<table0, failed, batchFail, cleanFail, dropped, inserted, afterDrop, order,
              edited, repeat>>
callVars == <<call, outcome, issued>>
progVars == <<reporter, events, completed, early>>
tableVars == <<table_names, table_handle, tpc, seen, creators>>
watchVars == <<pending_changes, last_event_time, clock, pass, handled, arrived,
               os_events, observer>>
vars == <<disk, storeVars, runVars, histVars, callVars, progVars, lock, tableVars,
          watchVars>>

\* ------------------------------------------------------------ store (store.py)
\* a stored chunk
Row(p, t, h, b) == [path |-> p, text |-> t, file_hash |-> h, branch |-> b]

Range(s) == {s[i] : i \in DOMAIN s}

BagOfSeq(s) == [x \in Range(s) |-> Cardinality({i \in DOMAIN s : s[i] = x})]

\* table.count_rows()
count_rows(t) == BagCardinality(t)

\* the rows of one path, with their multiplicities
RowsOf(t, p) == [r \in {x \in DOMAIN t : x.path = p} |-> t[r]]

\* table.delete("path = '<p>'")
DeletePathLeavesAll(t, p) == t

delete_by_path(t, p) == [r \in {x \in DOMAIN t : x.path # p} |-> t[r]]

\* table.delete("branch = '<b>'")
delete_by_branch(t, b) == [r \in {x \in DOMAIN t : x.branch # b} |-> t[r]]

\* table.add(data)
add_chunks(t, rows) == t (+) BagOfSeq(rows)

\* get_indexed_files / get_indexed_files_by_branch
get_indexed_files(t) == {r.path : r \in DOMAIN t}

get_indexed_files_by_branch(t, b) == {r.path : r \in {x \in DOMAIN t : x.branch = b}}

\* get_file_hash: the file_hash of one row of the path (limit 1), None without rows
get_file_hash(t, p) ==
    IF RowsOf(t, p) = EmptyBag THEN {NoHash}
    ELSE {r.file_hash : r \in DOMAIN RowsOf(t, p)}

\* search queries: a mode, and the two scalar filters
NoFilter == "NoFilter"
Queries ==
    [mode : {"fts", "vector"}, branch_filter : {NoFilter, "main"},
     file_filter : {NoFilter, "a.py"}]

\* _apply_filters: the conjunction of the filters that are set
Matches(r, q) ==
    /\ (q.file_filter # NoFilter => r.path = q.file_filter)
    /\ (q.branch_filter # NoFilter => r.branch = q.branch_filter)

\* _search_vector / _search_fts followed by _post_filter: the matching rows
\* (the limit is at least the table size)
ExecuteSearch(t, q) == [r \in {x \in DOMAIN t : Matches(x, q)} |-> t[r]]

\* the arguments of _cached_search are hashable: a query vector is a list
Hashable(q) == q.mode = "fts"

CacheHit(q) == \E e \in cache : e.q = q

CachedResult(q) == (CHOOSE e \in cache : e.q = q).result

\* clear_cache, as add_chunks calls it
clear_cache(c) == {}

\* --------------------------------------------------------- indexer (indexer.py)
\* performance.parallel_enabled, performance.batch_embedding (left at its default),
\* git.cleanup_deleted
Configs == [parallel : BOOLEAN, batch : {TRUE}, cleanup : BOOLEAN]

\* _discover_files for a directory, [path] for a single file
Discover(t) == IF t = "dir" THEN {p \in Paths : disk[p] # Absent} ELSE {t}

\* index_path line 178: parallel_enabled and len(files) > 1
UseParallel(c, fs) == c.parallel /\ Cardinality(fs) > 1

\* _index_file line 649: queue the chunks instead of embedding them at once
BatchMode == cfg.batch /\ in_parallel

\* an entry of the embedding queue: (text, metadata, rel_path, file_hash, language)
Item(p, i) == [text |-> <<disk[p], i>>, path |-> p, file_hash |-> fhash[p]]

\* the CodeChunk built from a queue entry (lines 438-449, 664-675)
ChunkOf(it) == Row(it.path, it.text, it.file_hash, current_branch)

ChunksOf(items) == [i \in DOMAIN items |-> ChunkOf(items[i])]

\* the chunks _index_file builds for a file in the immediate path
FileItems(p) == [i \in 1..NumChunks(disk[p]) |-> Item(p, i)]

CanFail == nfail < MaxFailures

\* no file, batch or cleanup failure in the run so far
NoFailure == failed = {} /\ ~batchFail /\ ~cleanFail

Running(p) == fpc[p] \notin {"none", "pending", "done"}

\* a file may start: the serial loop handles one file at a time, the pool's
\* workers run side by side
MayStart(p) ==
    /\ pc = "indexing"
    /\ fpc[p] = "pending"
    /\ (in_parallel \/ \A q \in Paths : ~Running(q))

\* history of the delete / insert order of a path within one run
AfterDelete(o) == IF o = "none" THEN "del" ELSE "bad"

AfterInsert(o) == IF o \in {"del", "del_ins"} THEN "del_ins" ELSE "bad"

InsertOrder(items) ==
    [p \in Paths |-> IF \E i \in DOMAIN items : items[i].path = p
                     THEN AfterInsert(order[p]) ELSE order[p]]

\* nobody holds the lock
Free == "free"

\* as_completed has not been called
NotIterating == [started |-> FALSE, finished |-> {}]

\* no progress reporter; the pool's futures are watched only for a reporter
NoProgress ==
    /\ reporter = [some |-> FALSE]
    /\ events = <<>>
    /\ completed = <<>>
    /\ early = NotIterating

\* the threads that reach the store's table
Callers == Workers

TableName == "code_chunks"

\* self._table: Optional[Table] = None (store.py line 44)
NoTable == "None"

Opened == "Table"

\* the caller has not listed the table names
NotListed == "not listed"

\* self.table_name in table_names (line 77)
Listed(names) == IF TableName \in names THEN "present" ELSE "absent"

\* a store just constructed, on a database without the table
TableUnopened ==
    /\ table_names = {}
    /\ table_handle = NoTable
    /\ tpc = [c \in Callers |-> "idle"]
    /\ seen = [c \in Callers |-> NotListed]
    /\ creators = {}

NoEvent == "none"

\* CodeChangeHandler.__init__ (watcher.py lines 47-48), no pass in progress
NoPass == [at |-> "idle", items |-> <<>>, from |-> 0]

\* no file system event so far
NoEvents == [sent |-> 0, waiting |-> <<>>]

\* the observer thread is in no handler
Waiting == [calls |-> <<>>, stamping |-> FALSE]

WatcherAtRest ==
    /\ pending_changes = [p \in Paths |-> NoEvent]
    /\ last_event_time = 0
    /\ clock = 0
    /\ pass = NoPass
    /\ handled = <<>>
    /\ arrived = <<>>
    /\ os_events = NoEvents
    /\ observer = Waiting

\* no search or result enhancer call has been made
NoCall ==
    /\ call = [op |-> "none"]
    /\ outcome = [kind |-> "none"]
    /\ issued = <<>>

Init ==
    /\ disk = [p \in Paths |-> Absent]
    /\ table = EmptyBag
    /\ cache = {}
    /\ cache_enabled = TRUE
    /\ lastSearch = [q |-> "none", result |-> EmptyBag, fresh |-> EmptyBag]
    /\ nsearch = 0
    /\ pc = "idle"
    /\ run = 0
    /\ target = "dir"
    /\ force = FALSE
    /\ current_branch = NoBranch
    /\ cfg \in Configs
    /\ files = {}
    /\ in_parallel = FALSE
    /\ fpc = [p \in Paths |-> "none"]
    /\ fres = [p \in Paths |-> "none"]
    /\ fhash = [p \in Paths |-> EmptyHash]
    /\ next = [p \in Paths |-> 1]
    /\ queue = <<>>
    /\ held = [w \in Workers |-> <<>>]
    /\ nfail = 0
    /\ table0 = EmptyBag
    /\ failed = {}
    /\ batchFail = FALSE
    /\ cleanFail = FALSE
    /\ dropped = {}
    /\ inserted = EmptyBag
    /\ afterDrop = {}
    /\ order = [p \in Paths |-> "none"]
    /\ edited = FALSE
    /\ repeat = FALSE
    /\ NoCall
    /\ NoProgress
    /\ lock = Free
    /\ TableUnopened
    /\ WatcherAtRest

Between == pc \in {"idle", "done", "raised"}

\* the environment writes or removes a file while no run is in progress; the
\* finished call's locals are gone
Edit(p, c) ==
    /\ Between
    /\ run < MaxRuns
    /\ disk[p] # c
    /\ disk' = [disk EXCEPT ![p] = c]
    /\ edited' = TRUE
    /\ pc' = "idle"
    /\ target' = "dir"
    /\ force' = FALSE
    /\ current_branch' = NoBranch
    /\ files' = {}
    /\ fpc' = [q \in Paths |-> "none"]
    /\ fres' = [q \in Paths |-> "none"]
    /\ fhash' = [q \in Paths |-> EmptyHash]
    /\ next' = [q \in Paths |-> 1]
    /\ table0' = EmptyBag
    /\ failed' = {}
    /\ batchFail' = FALSE
    /\ cleanFail' = FALSE
    /\ dropped' = {}
    /\ inserted' = EmptyBag
    /\ afterDrop' = {}
    /\ order' = [q \in Paths |-> "none"]
    /\ repeat' = FALSE
    /\ UNCHANGED <<tableVars, watchVars, callVars, lock, progVars, storeVars, run, cfg, in_parallel, queue, held, nfail>>

\* ProgressReporter.__init__ (progress.py lines 52-55)
ProgressReporter(total_files) ==
    [some |-> TRUE, total_files |-> total_files, current_file |-> 0]

\* self.current_file += 1 (progress.py line 67)
NextCurrentStuck(current_file) == current_file

NextCurrent(current_file) == current_file + 1

\* ProgressReporter.update (progress.py lines 57-91): count the file and hand the
\* event to the callback
Update(filename) ==
    /\ reporter' = [reporter EXCEPT !.current_file = NextCurrent(@)]
    /\ events' = Append(events, [current |-> NextCurrent(reporter.current_file),
                                 total |-> reporter.total_files,
                                 filename |-> filename])

\* the serial loop reports a file before it handles it (lines 235-236)
ReportsSerial(p) ==
    IF reporter.some /\ ~in_parallel THEN Update(p) ELSE UNCHANGED <<reporter, events>>

\* a worker that returns finishes its future
Completes(p) ==
    completed' = IF reporter.some /\ in_parallel /\ fpc'[p] = "done" /\ fpc[p] # "done"
                 THEN Append(completed, p)
                 ELSE completed

\* index_path lines 137-185: resolve the branch, discover, make the reporter,
\* choose the mode
StartRun(t, f, b, progress_callback) ==
    /\ Between
    /\ run < MaxRuns
    /\ run' = run + 1
    /\ target' = t
    /\ force' = f
    /\ current_branch' = b
    /\ repeat' = (/\ pc = "done"
                  /\ run > 0
                  /\ NoFailure
                  /\ ~edited
                  /\ target = t
                  /\ current_branch = b)
    /\ edited' = FALSE
    /\ table0' = table
    /\ failed' = {}
    /\ batchFail' = FALSE
    /\ cleanFail' = FALSE
    /\ dropped' = {}
    /\ inserted' = EmptyBag
    /\ afterDrop' = {}
    /\ order' = [p \in Paths |-> "none"]
    /\ held' = [w \in Workers |-> <<>>]
    /\ fres' = [p \in Paths |-> "none"]
    /\ fhash' = [p \in Paths |-> EmptyHash]
    /\ next' = [p \in Paths |-> 1]
    /\ IF t \in Paths /\ disk[t] = Absent
       THEN \* raise ValueError("Path does not exist")
            /\ pc' = "raised"
            /\ files' = {}
            /\ in_parallel' = FALSE
            /\ fpc' = [p \in Paths |-> "none"]
            /\ reporter' = [some |-> FALSE]
       ELSE /\ pc' = "indexing"
            /\ files' = Discover(t)
            /\ in_parallel' = UseParallel(cfg, Discover(t))
            /\ fpc' = [p \in Paths |-> IF p \in Discover(t) THEN "pending" ELSE "none"]
            /\ reporter' = IF progress_callback
                           THEN ProgressReporter(Cardinality(Discover(t)))
                           ELSE [some |-> FALSE]
    /\ events' = <<>>
    /\ completed' = <<>>
    /\ early' = NotIterating
    /\ UNCHANGED <<tableVars, watchVars, callVars, lock, disk, storeVars, cfg, queue, nfail>>

\* the file's processing ends with a result
Finish(p, r) ==
    /\ fpc' = [fpc EXCEPT ![p] = "done"]
    /\ fres' = [fres EXCEPT ![p] = r]

\* where the run stands after an exception in one file's processing: the
\* handlers of lines 259-261 and 374-376 keep the run going
AfterFileErrorAborts == "raised"

AfterFileError == "indexing"

\* stored_hash == file_hash (lines 248, 362)
SkipNever(stored_hash, file_hash) == FALSE

SkipUnchanged(stored_hash, file_hash) == stored_hash = file_hash

\* should_index_file and the incremental check (lines 238-251, 353-364)
CheckFile(p, o) ==
    /\ MayStart(p)
    /\ o \in {"ok", "stat_fail", "hash_fail", "store_read_fail"}
    /\ (o # "ok" => CanFail)
    /\ nfail' = IF o = "ok" THEN nfail ELSE nfail + 1
    /\ failed' = IF o = "ok" THEN failed ELSE failed \cup {p}
    /\ IF o = "stat_fail" \/ TooLarge(disk[p])
       THEN \* should_index_file returns False
            o \in {"ok", "stat_fail"} /\ Finish(p, "skipped")
       ELSE IF force
       THEN /\ o = "ok"
            /\ fpc' = [fpc EXCEPT ![p] = "index"]
            /\ fres' = fres
       ELSE \E stored \in (IF o = "store_read_fail" THEN {NoHash}
                           ELSE get_file_hash(table, p)) :
              LET file_hash == IF o = "hash_fail" THEN EmptyHash ELSE Sha256(disk[p])
              IN  IF SkipUnchanged(stored, file_hash)
                  THEN Finish(p, "skipped")
                  ELSE /\ fpc' = [fpc EXCEPT ![p] = "index"]
                       /\ fres' = fres
    /\ ReportsSerial(p)
    /\ Completes(p)
    /\ UNCHANGED <<tableVars, watchVars, callVars, lock, early, disk, storeVars, pc, run, target, force, current_branch, cfg,
                   files, in_parallel, fhash, next, queue, held, table0, batchFail,
                   cleanFail, dropped, inserted, afterDrop, order, edited, repeat>>

\* _index_file lines 614-655: read, hash, delete the old chunks, chunk
IndexFileNoDelete(p, o) ==
    /\ pc = "indexing"
    /\ fpc[p] = "index"
    /\ o = "ok"
    /\ ~IsBlank(disk[p])
    /\ fhash' = [fhash EXCEPT ![p] = Sha256(disk[p])]
    /\ fpc' = [fpc EXCEPT ![p] = IF BatchMode THEN "enqueue" ELSE "store"]
    /\ Completes(p)
    /\ UNCHANGED <<tableVars, watchVars, callVars, lock, reporter, events, early, disk, storeVars, pc, run, target, force, current_branch, cfg,
                   files, in_parallel, fres, next, queue, held, nfail, histVars>>

IndexFile(p, o) ==
    /\ pc = "indexing"
    /\ fpc[p] = "index"
    /\ o \in {"ok", "read_fail", "hash_fail", "delete_fail", "chunk_fail"}
    /\ (o # "ok" => CanFail)
    /\ nfail' = IF o = "ok" THEN nfail ELSE nfail + 1
    /\ failed' = IF o = "ok" THEN failed ELSE failed \cup {p}
    /\ IF o = "read_fail" \/ IsBlank(disk[p])
       THEN \* return 0 before anything is deleted
            /\ o \in {"ok", "read_fail"}
            /\ Finish(p, "no_chunks")
            /\ UNCHANGED <<table, fhash, order, pc>>
       ELSE /\ fhash' = [fhash EXCEPT ![p] =
                            IF o = "hash_fail" THEN EmptyHash ELSE Sha256(disk[p])]
            /\ IF o = "delete_fail"
               THEN \* delete_by_path raises
                    /\ Finish(p, "error")
                    /\ pc' = AfterFileError
                    /\ UNCHANGED <<table, order>>
               ELSE /\ table' = delete_by_path(table, p)
                    /\ order' = [order EXCEPT ![p] = AfterDelete(order[p])]
                    /\ IF o = "chunk_fail"
                       THEN Finish(p, "error") /\ pc' = AfterFileError
                       ELSE /\ fres' = fres
                            /\ pc' = pc
                            /\ fpc' = [fpc EXCEPT ![p] =
                                          IF BatchMode THEN "enqueue" ELSE "store"]
    /\ Completes(p)
    /\ UNCHANGED <<tableVars, watchVars, callVars, lock, reporter, events, early, disk, cache, cache_enabled, lastSearch, nsearch, run, target,
                   force, current_branch, cfg, files, in_parallel, next, queue,
                   held, table0, batchFail, cleanFail, dropped, inserted, afterDrop, edited,
                   repeat>>

\* _index_file lines 657-682: embed the file's chunks and store them at once
StoreFile(p, o) ==
    /\ pc = "indexing"
    /\ fpc[p] = "store"
    /\ o \in {"ok", "embed_fail", "add_fail"}
    /\ (o # "ok" => CanFail)
    /\ nfail' = IF o = "ok" THEN nfail ELSE nfail + 1
    /\ failed' = IF o = "ok" THEN failed ELSE failed \cup {p}
    /\ IF o = "ok"
       THEN /\ table' = add_chunks(table, ChunksOf(FileItems(p)))
            /\ cache' = clear_cache(cache)
            /\ order' = InsertOrder(FileItems(p))
            /\ inserted' = inserted (+) BagOfSeq(ChunksOf(FileItems(p)))
            /\ Finish(p, "indexed")
            /\ pc' = pc
       ELSE /\ Finish(p, "error")
            /\ pc' = AfterFileError
            /\ UNCHANGED <<table, cache, order, inserted>>
    /\ Completes(p)
    /\ UNCHANGED <<tableVars, watchVars, callVars, lock, reporter, events, early, disk, cache_enabled, lastSearch, nsearch, run, target, force,
                   current_branch, cfg, files, in_parallel, fhash, next, queue,
                   held, table0, batchFail, cleanFail, dropped, afterDrop, edited,
                   repeat>>

\* after a chunk was queued (and a flush, if any): next chunk or return
Continue(p, n) ==
    IF n > NumChunks(disk[p])
    THEN Finish(p, "indexed")
    ELSE fpc' = [fpc EXCEPT ![p] = "enqueue"] /\ fres' = fres

\* len(self._embedding_queue) >= self.embedding_batch_size (line 394)
ShouldFlushAlways(q) == TRUE

ShouldFlush(q) == Len(q) >= BatchSize

\* _batch_embed_and_store lines 389-399: append under the lock, decide to flush
Enqueue(p) ==
    /\ pc = "indexing"
    /\ fpc[p] = "enqueue"
    /\ lock = Free
    /\ queue' = Append(queue, Item(p, next[p]))
    /\ next' = [next EXCEPT ![p] = next[p] + 1]
    /\ IF ShouldFlush(queue')
       THEN fpc' = [fpc EXCEPT ![p] = "drain"] /\ fres' = fres
       ELSE Continue(p, next[p] + 1)
    /\ Completes(p)
    /\ UNCHANGED <<tableVars, watchVars, callVars, lock, reporter, events, early, disk, storeVars, pc, run, target, force, current_branch, cfg,
                   files, in_parallel, fhash, held, nfail, histVars>>

\* what a drain leaves in the queue (line 414: clear)
LeftAfterDrainKeeps(q) == q

LeftAfterDrain(q) == <<>>

\* who holds the lock when the flush goes on to embed: the with block of lines
\* 408-414 has ended
LockAfterDrainHeld(w) == w

LockAfterDrain(w) == Free

\* _flush_embedding_queue lines 408-414, by a worker: copy and clear under the lock
Drain(p) ==
    /\ pc = "indexing"
    /\ fpc[p] = "drain"
    /\ lock = Free
    /\ IF queue = <<>>
       THEN \* return 0
            /\ Continue(p, next[p])
            /\ UNCHANGED <<queue, held, lock>>
       ELSE /\ held' = [held EXCEPT ![p] = queue]
            /\ queue' = LeftAfterDrain(queue)
            /\ lock' = LockAfterDrain(p)
            /\ fpc' = [fpc EXCEPT ![p] = "bstore"]
            /\ fres' = fres
    /\ Completes(p)
    /\ UNCHANGED <<tableVars, watchVars, callVars, reporter, events, early, disk, storeVars, pc, run, target, force, current_branch, cfg,
                   files, in_parallel, fhash, next, nfail, histVars>>

\* the chunks a flush stores when its embedding or its insert fails (lines 429-431,
\* 456-458): none
StoredOnFailureFirst(items) == SubSeq(items, 1, 1)

StoredOnFailure(items) == <<>>

\* _flush_embedding_queue lines 416-460 by thread w: embed the batch, store it
FlushBatch(w, o) ==
    /\ o \in {"ok", "embed_fail", "add_fail"}
    /\ (o # "ok" => CanFail)
    /\ nfail' = IF o = "ok" THEN nfail ELSE nfail + 1
    /\ batchFail' = (batchFail \/ o # "ok")
    /\ LET stored == IF o = "ok" THEN held[w] ELSE StoredOnFailure(held[w])
       IN  /\ table' = add_chunks(table, ChunksOf(stored))
           /\ cache' = IF stored = <<>> THEN cache ELSE clear_cache(cache)
           /\ order' = InsertOrder(stored)
           /\ inserted' = inserted (+) BagOfSeq(ChunksOf(stored))
           /\ dropped' = IF o = "ok" THEN dropped ELSE dropped \cup Range(held[w])
           /\ afterDrop' = IF o = "ok" /\ dropped # {}
                           THEN afterDrop \cup Range(held[w]) ELSE afterDrop
    /\ held' = [held EXCEPT ![w] = <<>>]

WorkerFlush(p, o) ==
    /\ pc = "indexing"
    /\ fpc[p] = "bstore"
    /\ FlushBatch(p, o)
    /\ Continue(p, next[p])
    /\ Completes(p)
    /\ UNCHANGED <<tableVars, watchVars, callVars, lock, reporter, events, early, disk, cache_enabled, lastSearch, nsearch, pc, run, target, force,
                   current_branch, cfg, files, in_parallel, fhash, next, queue,
                   table0, failed, cleanFail, edited, repeat>>

AllDone == \A p \in files : fpc[p] = "done"

\* the files whose future the loop of lines 303-326 has taken
Taken == {events[i].filename : i \in DOMAIN events}

\* concurrent.futures.as_completed is called (line 303): the futures that have
\* finished by now are yielded first, in no particular order
AsCompleted ==
    /\ pc = "indexing"
    /\ in_parallel
    /\ reporter.some
    /\ ~early.started
    /\ early' = [started |-> TRUE, finished |-> Range(completed)]
    /\ UNCHANGED <<tableVars, watchVars, callVars, lock, reporter, events, completed, disk, storeVars, runVars,
                   histVars>>

\* the next future as_completed yields: one of those that had finished when it
\* was called, or, when these are used up, the one that finished first
YieldsNext(p) ==
    /\ early.started
    /\ p \in Range(completed) \ Taken
    /\ \/ p \in early.finished
       \/ /\ early.finished \subseteq Taken
          /\ \A i, j \in DOMAIN completed :
                (completed[j] = p /\ i < j) => completed[i] \in Taken

\* one turn of the loop of lines 303-326: report the file, read its result
Collect(p) ==
    /\ pc = "indexing"
    /\ in_parallel
    /\ reporter.some
    /\ YieldsNext(p)
    /\ Update(p)
    /\ UNCHANGED <<tableVars, watchVars, callVars, lock, completed, early, disk, storeVars, runVars, histVars>>

\* the loop over the futures has ended
AllCollected == (reporter.some /\ in_parallel) => files \subseteq Taken

\* index_path lines 188-194 with lines 331-333 and 408-414: every file was
\* handled, leave the parallel mode, drain what is left in the queue
FinalDrain ==
    /\ pc = "indexing"
    /\ AllDone
    /\ AllCollected
    /\ in_parallel' = FALSE
    /\ lock = Free
    /\ IF cfg.batch /\ queue # <<>>
       THEN /\ held' = [held EXCEPT ![Main] = queue]
            /\ queue' = LeftAfterDrain(queue)
            /\ lock' = LockAfterDrain(Main)
            /\ pc' = "final_store"
       ELSE /\ pc' = "cleanup"
            /\ UNCHANGED <<queue, held, lock>>
    /\ UNCHANGED <<tableVars, watchVars, callVars, progVars, disk, storeVars, run, target, force, current_branch, cfg, files,
                   fpc, fres, fhash, next, nfail, histVars>>

\* index_path line 191: the end-of-run flush embeds and stores
FinalFlush(o) ==
    /\ pc = "final_store"
    /\ FlushBatch(Main, o)
    /\ pc' = "cleanup"
    /\ UNCHANGED <<tableVars, watchVars, callVars, lock, progVars, disk, cache_enabled, lastSearch, nsearch, run, target, force,
                   current_branch, cfg, files, in_parallel, fpc, fres, fhash, next,
                   queue, table0, failed, cleanFail, edited, repeat>>

\* git.cleanup_deleted (line 567)
CleanupAlways(c) == TRUE

CleanupEnabled(c) == c.cleanup

\* the paths the cleanup compares against the discovery (lines 574-577)
IndexedForCleanupGlobal(t, b) == get_indexed_files(t)

IndexedForCleanup(t, b) ==
    IF b # NoBranch THEN get_indexed_files_by_branch(t, b) ELSE get_indexed_files(t)

RECURSIVE DeleteAll(_, _)
DeleteAll(t, ps) ==
    IF ps = {} THEN t
    ELSE LET p == CHOOSE x \in ps : TRUE
         IN  DeleteAll(delete_by_path(t, p), ps \ {p})

\* deleted_files = indexed_files - current_file_set (line 583)
DeletedFilesSwapped(indexed_files, current_file_set) == current_file_set \ indexed_files

DeletedFiles(indexed_files, current_file_set) == indexed_files \ current_file_set

\* _cleanup_deleted_files, then return self.store.get_stats()
Cleanup(D) ==
    /\ pc = "cleanup"
    /\ IF ~CleanupEnabled(cfg)
       THEN D = {} /\ UNCHANGED <<table, nfail, cleanFail>>
       ELSE LET deleted_files ==
                    DeletedFiles(IndexedForCleanup(table, current_branch), files)
            IN  /\ D \subseteq deleted_files
                /\ (D # deleted_files => CanFail)
                /\ table' = DeleteAll(table, D)
                /\ nfail' = IF D = deleted_files THEN nfail ELSE nfail + 1
                /\ cleanFail' = (D # deleted_files)
    /\ pc' = "done"
    /\ UNCHANGED <<tableVars, watchVars, callVars, lock, progVars, disk, cache, cache_enabled, lastSearch, nsearch, run, target,
                   force, current_branch, cfg, files, in_parallel, fpc, fres, fhash,
                   next, queue, held, table0, failed, batchFail, dropped, inserted, afterDrop,
                   order, edited, repeat>>

Next ==
    \/ \E p \in Paths : \E c \in Contents(p) \cup {Absent} : Edit(p, c)
    \/ \E t \in Targets, f \in BOOLEAN, b \in BranchTags : StartRun(t, f, b, FALSE)
    \/ \E p \in Paths, o \in {"ok", "stat_fail", "hash_fail", "store_read_fail"} :
          CheckFile(p, o)
    \/ \E p \in Paths,
          o \in {"ok", "read_fail", "hash_fail", "delete_fail", "chunk_fail"} :
          IndexFile(p, o)
    \/ \E p \in Paths, o \in {"ok", "embed_fail", "add_fail"} : StoreFile(p, o)
    \/ \E p \in Paths : Enqueue(p)
    \/ \E p \in Paths : Drain(p)
    \/ \E p \in Paths, o \in {"ok", "embed_fail", "add_fail"} : WorkerFlush(p, o)
    \/ FinalDrain
    \/ \E o \in {"ok", "embed_fail", "add_fail"} : FinalFlush(o)
    \/ \E D \in SUBSET Paths : Cleanup(D)

Spec == Init /\ [][Next]_vars

\* ------------------------------------------- one reported run (indexer.py)
\* the contents of a file of the project: absent, blank, of one, two or three
\* chunks, or too large
RunContents == {Absent, "blank", "v1", "v2", "v3", "big"}

\* the index before the run: empty, or a.py indexed with one chunk
RunTables == {EmptyBag, BagOfSeq(<<Row("a.py", <<"v1", 1>>, "h1", NoBranch)>>)}

\* a project and an index on which index_path is called once, with a progress
\* callback
InitRun ==
    /\ disk \in [Paths -> RunContents]
    /\ table \in RunTables
    /\ cache = {}
    /\ cache_enabled = TRUE
    /\ lastSearch = [q |-> "none", result |-> EmptyBag, fresh |-> EmptyBag]
    /\ nsearch = 0
    /\ pc = "idle"
    /\ run = 0
    /\ target = "dir"
    /\ force = FALSE
    /\ current_branch = NoBranch
    /\ cfg \in Configs
    /\ files = {}
    /\ in_parallel = FALSE
    /\ fpc = [p \in Paths |-> "none"]
    /\ fres = [p \in Paths |-> "none"]
    /\ fhash = [p \in Paths |-> EmptyHash]
    /\ next = [p \in Paths |-> 1]
    /\ queue = <<>>
    /\ held = [w \in Workers |-> <<>>]
    /\ nfail = 0
    /\ table0 = EmptyBag
    /\ failed = {}
    /\ batchFail = FALSE
    /\ cleanFail = FALSE
    /\ dropped = {}
    /\ inserted = EmptyBag
    /\ afterDrop = {}
    /\ order = [p \in Paths |-> "none"]
    /\ edited = FALSE
    /\ repeat = FALSE
    /\ NoCall
    /\ NoProgress
    /\ lock = Free
    /\ TableUnopened
    /\ WatcherAtRest

NextRun ==
    \/ \E t \in Targets, f \in BOOLEAN : run = 0 /\ StartRun(t, f, NoBranch, TRUE)
    \/ \E p \in Paths, o \in {"ok", "stat_fail", "hash_fail", "store_read_fail"} :
          CheckFile(p, o)
    \/ \E p \in Paths,
          o \in {"ok", "read_fail", "hash_fail", "delete_fail", "chunk_fail"} :
          IndexFile(p, o)
    \/ \E p \in Paths, o \in {"ok", "embed_fail", "add_fail"} : StoreFile(p, o)
    \/ \E p \in Paths : Enqueue(p)
    \/ \E p \in Paths : Drain(p)
    \/ \E p \in Paths, o \in {"ok", "embed_fail", "add_fail"} : WorkerFlush(p, o)
    \/ AsCompleted
    \/ \E p \in Paths : Collect(p)
    \/ FinalDrain
    \/ \E o \in {"ok", "embed_fail", "add_fail"} : FinalFlush(o)
    \/ \E D \in SUBSET Paths : Cleanup(D)

SpecRun == InitRun /\ [][NextRun]_vars

\* ------------------------------------------------------- store calls (store.py)
\* rows a caller may add
StoreRows == {Row(p, <<"v1", 1>>, "h1", b) : p \in Paths, b \in Branches}

InitStore ==
    /\ disk = [p \in Paths |-> Absent]
    /\ table = EmptyBag
    /\ cache = {}
    /\ cache_enabled \in BOOLEAN
    /\ lastSearch = [q |-> "none", result |-> EmptyBag, fresh |-> EmptyBag]
    /\ nsearch = 0
    /\ pc = "idle"
    /\ run = 0
    /\ target = "dir"
    /\ force = FALSE
    /\ current_branch = NoBranch
    /\ cfg = [parallel |-> FALSE, batch |-> TRUE, cleanup |-> TRUE]
    /\ files = {}
    /\ in_parallel = FALSE
    /\ fpc = [p \in Paths |-> "none"]
    /\ fres = [p \in Paths |-> "none"]
    /\ fhash = [p \in Paths |-> EmptyHash]
    /\ next = [p \in Paths |-> 1]
    /\ queue = <<>>
    /\ held = [w \in Workers |-> <<>>]
    /\ nfail = 0
    /\ table0 = EmptyBag
    /\ failed = {}
    /\ batchFail = FALSE
    /\ cleanFail = FALSE
    /\ dropped = {}
    /\ inserted = EmptyBag
    /\ afterDrop = {}
    /\ order = [p \in Paths |-> "none"]
    /\ edited = FALSE
    /\ repeat = FALSE
    /\ NoCall
    /\ NoProgress
    /\ lock = Free
    /\ TableUnopened
    /\ WatcherAtRest

\* VectorStore.add_chunks (lines 105-126)
AddChunks(rows) ==
    /\ rows # <<>>
    /\ count_rows(table) + Len(rows) <= MaxRows
    /\ table' = add_chunks(table, rows)
    /\ cache' = clear_cache(cache)
    /\ UNCHANGED <<tableVars, watchVars, callVars, lock, progVars, disk, cache_enabled, lastSearch, nsearch, runVars, histVars>>

\* VectorStore.delete_by_path (lines 471-498)
DeleteByPath(p) ==
    /\ table' = delete_by_path(table, p)
    /\ UNCHANGED <<tableVars, watchVars, callVars, lock, progVars, disk, cache, cache_enabled, lastSearch, nsearch, runVars, histVars>>

\* VectorStore.delete_by_branch (lines 500-527)
DeleteByBranch(b) ==
    /\ table' = delete_by_branch(table, b)
    /\ UNCHANGED <<tableVars, watchVars, callVars, lock, progVars, disk, cache, cache_enabled, lastSearch, nsearch, runVars, histVars>>

\* VectorStore.clear_all (lines 641-649): drop the table
ClearAll ==
    /\ table' = EmptyBag
    /\ UNCHANGED <<tableVars, watchVars, callVars, lock, progVars, disk, cache, cache_enabled, lastSearch, nsearch, runVars, histVars>>

\* VectorStore.search (lines 236-275) for a valid query
Search(q, use_cache) ==
    /\ nsearch < MaxSearches
    /\ nsearch' = nsearch + 1
    /\ LET fresh == ExecuteSearch(table, q)
           viaCache == cache_enabled /\ use_cache /\ Hashable(q)
           result == IF viaCache /\ CacheHit(q) THEN CachedResult(q) ELSE fresh
       IN  /\ lastSearch' = [q |-> q, result |-> result, fresh |-> fresh]
           /\ cache' = IF viaCache /\ ~CacheHit(q)
                       THEN cache \cup {[q |-> q, result |-> fresh]}
                       ELSE cache
    /\ UNCHANGED <<tableVars, watchVars, callVars, lock, progVars, disk, table, cache_enabled, runVars, histVars>>

NextStore ==
    \/ \E r \in StoreRows : AddChunks(<<r>>)
    \/ \E p \in Paths : DeleteByPath(p)
    \/ \E b \in Branches : DeleteByBranch(b)
    \/ ClearAll
    \/ \E q \in Queries, u \in BOOLEAN : Search(q, u)

SpecStore == InitStore /\ [][NextStore]_vars

\* ------------------------------------------------- search (store.py lines 179-469)
\* an optional argument: None, or a value (a string or a list, as a sequence)
None == [some |-> FALSE, v |-> <<>>]

Some(v) == [some |-> TRUE, v |-> v]

\* Python truthiness of an optional string or list: not None and not empty
Truthy(x) == x.some /\ Len(x.v) > 0

\* mode=None, the three modes, and a string that is none of them
NoMode == "<None>"
Modes == {NoMode, "vector", "fts", "hybrid", "bogus"}

\* strings matched by LIKE are sequences of characters
P_ab == <<"s", "/", "a", "_", "b", ".", "p">>
P_axb == <<"s", "/", "a", "x", "b", ".", "p">>
P_c == <<"t", "/", "c", ".", "m">>
Ext_p == <<".", "p">>
Ext_m == <<".", "m">>
Dir_s == <<"s", "/">>

\* the rows a table can hold: the CodeChunk columns the filters read, and the
\* scores the engine computes for the query: _distance (L2), _score of the
\* BM25 search and _score of the hybrid search, in hundredths
SearchRows ==
    { [id |-> 1, path |-> P_ab, branch |-> "main", chunk_type |-> "function",
       language |-> "python", distance |-> 0, fts |-> 250, hybrid |-> 50],
      [id |-> 2, path |-> P_axb, branch |-> "main", chunk_type |-> "class",
       language |-> "python", distance |-> 100, fts |-> 50, hybrid |-> 100],
      [id |-> 3, path |-> P_c, branch |-> "dev", chunk_type |-> "function",
       language |-> "markdown", distance |-> 300, fts |-> 100, hybrid |-> 250],
      [id |-> 4, path |-> P_ab, branch |-> "dev", chunk_type |-> "class",
       language |-> "python", distance |-> 100, fts |-> 0, hybrid |-> 0] }

\* the CodeChunk built from a hit (lines 460-462): internal fields removed
ChunkOfHit(r) ==
    [id |-> r.id, path |-> r.path, branch |-> r.branch,
     chunk_type |-> r.chunk_type, language |-> r.language]

\* SQL LIKE: % matches any run of characters, _ any one character
RECURSIVE Like(_, _)
Like(s, pat) ==
    IF pat = <<>> THEN s = <<>>
    ELSE IF Head(pat) = "%"
         THEN \E k \in 0..Len(s) : Like(SubSeq(s, k + 1, Len(s)), Tail(pat))
         ELSE /\ s # <<>>
              /\ (Head(pat) = "_" \/ Head(pat) = Head(s))
              /\ Like(Tail(s), Tail(pat))

\* one condition of the WHERE clause
Cond(kind, column, values) == [kind |-> kind, column |-> column, values |-> values]

\* _apply_filters lines 407-409: (path LIKE '%ext' OR ...)
ExtensionCond(extensions) ==
    Cond("like", "path", [i \in DOMAIN extensions |-> <<"%">> \o extensions[i]])

\* lines 412-414: (path LIKE 'dir%' OR ...)
DirectoryCond(directories) ==
    Cond("like", "path", [i \in DOMAIN directories |-> directories[i] \o <<"%">>])

\* lines 427-428: path LIKE '%file_filter%'
FileCond(file_filter) == Cond("like", "path", << <<"%">> \o file_filter \o <<"%">> >>)

\* _apply_filters (lines 392-439): the conditions, in the order they are appended
apply_filters(a) ==
    (IF Truthy(a.extensions) THEN <<ExtensionCond(a.extensions.v)>> ELSE <<>>)
    \o (IF Truthy(a.directories) THEN <<DirectoryCond(a.directories.v)>> ELSE <<>>)
    \o (IF Truthy(a.chunk_types)
        THEN <<Cond("in", "chunk_type", a.chunk_types.v)>> ELSE <<>>)
    \o (IF Truthy(a.languages)
        THEN <<Cond("in", "language", a.languages.v)>> ELSE <<>>)
    \o (IF Truthy(a.file_filter) THEN <<FileCond(a.file_filter.v)>> ELSE <<>>)
    \o (IF Truthy(a.branch_filter)
        THEN <<Cond("eq", "branch", <<a.branch_filter.v>>)>> ELSE <<>>)

\* the query handed to the engine: table.search(query, query_type).limit(limit),
\* with .where(conditions joined by AND) only when there is a condition (434-437)
EngineQuery(query_type, a) ==
    LET conditions == apply_filters(a)
    IN  [query_type |-> query_type, limit |-> a.limit,
         where |-> IF conditions # <<>> THEN Some(conditions) ELSE None]

\* the engine evaluates one condition on a row
Holds(c, r) ==
    CASE c.kind = "like" -> \E i \in DOMAIN c.values : Like(r[c.column], c.values[i])
      [] c.kind = "in" -> \E i \in DOMAIN c.values : r[c.column] = c.values[i]
      [] c.kind = "eq" -> r[c.column] = c.values[1]

Selected(r, where) ==
    ~where.some \/ \A i \in DOMAIN where.v : Holds(where.v[i], r)

\* the engine's relevance value of a row for a query type
Native(r, query_type) ==
    CASE query_type = "vector" -> r.distance
      [] query_type = "fts" -> r.fts
      [] query_type = "hybrid" -> r.hybrid

\* a ranks before b: nearer first for vector search, higher score first otherwise
RanksBefore(a, b, query_type) ==
    LET x == Native(a, query_type)
        y == Native(b, query_type)
    IN  IF x = y THEN a.id < b.id
        ELSE IF query_type = "vector" THEN x < y ELSE x > y

RECURSIVE Ranked(_, _)
Ranked(S, query_type) ==
    IF S = {} THEN <<>>
    ELSE LET h == CHOOSE a \in S : \A b \in S \ {a} : RanksBefore(a, b, query_type)
         IN  <<h>> \o Ranked(S \ {h}, query_type)

Take(s, n) == SubSeq(s, 1, IF Len(s) < n THEN Len(s) ELSE n)

\* query.to_list(): the selected rows of the table, ranked, at most limit
ToList(t, q) ==
    Take(Ranked({r \in DOMAIN t : Selected(r, q.where)}, q.query_type), q.limit)

\* _convert_results line 449, in hundredths: 1 / (1 + distance)
Similarity(distance) == (100 * 100) \div (100 + distance)

\* SearchResult.score is declared ge=0, le=1 (models.py line 49)
ValidScore(score) == 0 <= score /\ score <= 100

\* _convert_results (lines 441-465): the score of a hit
ScoreOf(r, score_type) ==
    CASE score_type = "distance" -> Similarity(r.distance)
      [] score_type = "fts" -> r.fts
      [] score_type = "hybrid" -> r.hybrid

\* _convert_results: SearchResult objects, or the validation error raised by
\* SearchResult(chunk=chunk, score=score), a ValueError
convert_results(hits, score_type) ==
    IF \A i \in DOMAIN hits : ValidScore(ScoreOf(hits[i], score_type))
    THEN [raised |-> FALSE,
          results |-> [i \in DOMAIN hits |->
                          [chunk |-> ChunkOfHit(hits[i]),
                           score |-> ScoreOf(hits[i], score_type)]]]
    ELSE [raised |-> TRUE, results |-> <<>>]

\* _post_filter (lines 467-469)
PostFilterStrict(results, min_score) ==
    SelectSeq(results, LAMBDA r : r.score > min_score)

post_filter(results, min_score) ==
    SelectSeq(results, LAMBDA r : r.score >= min_score)

\* what a search method hands back: the results and the engine queries it issued
Found(results, queries) == [raised |-> FALSE, results |-> results, issued |-> queries]

Raised(queries) == [raised |-> TRUE, results |-> <<>>, issued |-> queries]

\* _search_vector (lines 318-334)
search_vector(t, a) ==
    LET q == EngineQuery("vector", a)
    IN  Found(convert_results(ToList(t, q), "distance").results, <<q>>)

\* _search_fts (lines 336-359); e.fts says whether the engine can run the query
\* or raises ValueError / AttributeError
search_fts(t, a, e) ==
    LET q == EngineQuery("fts", a)
        c == convert_results(ToList(t, q), "fts")
    IN  IF e.fts = "ok" /\ ~c.raised
        THEN Found(c.results, <<q>>)
        ELSE Found(<<>>, <<q>>)

\* _search_hybrid (lines 361-390)
search_hybrid(t, a, e) ==
    LET q == EngineQuery("hybrid", a)
        c == convert_results(ToList(t, q), "hybrid")
    IN  IF e.hybrid = "ok" /\ ~c.raised
        THEN Found(c.results, <<q>>)
        ELSE IF Truthy(a.query_vector)
             THEN Found(search_vector(t, a).results, <<q>> \o search_vector(t, a).issued)
             ELSE Found(<<>>, <<q>>)

\* lines 220-228: the mode, or the ValueError when there is nothing to infer from
ResolveModeVectorFirst(a) ==
    IF a.mode # NoMode THEN a.mode
    ELSE IF Truthy(a.query_vector) THEN "vector"
    ELSE IF Truthy(a.query_text) THEN "fts"
    ELSE "ValueError"

ResolveMode(a) ==
    IF a.mode # NoMode THEN a.mode
    ELSE IF Truthy(a.query_text) /\ Truthy(a.query_vector) THEN "hybrid"
    ELSE IF Truthy(a.query_vector) THEN "vector"
    ELSE IF Truthy(a.query_text) THEN "fts"
    ELSE "ValueError"

\* lines 231-232
MissingVector(mode, a) == mode = "vector" /\ ~a.query_vector.some

\* lines 233-234
MissingTextNever(mode, a) == FALSE

MissingText(mode, a) == mode \in {"fts", "hybrid"} /\ ~a.query_text.some

\* lines 258-269 and 302-313: route to the search method of the mode
Route(t, mode, a, e) ==
    CASE mode = "vector" -> search_vector(t, a)
      [] mode = "fts" -> search_fts(t, a, e)
      [] mode = "hybrid" -> search_hybrid(t, a, e)
      [] OTHER -> Raised(<<>>)

\* the arguments _cached_search hashes: a list (query_vector, extensions,
\* directories, chunk_types, languages) makes lru_cache raise TypeError
HashableArgs(a) ==
    /\ ~a.query_vector.some
    /\ ~a.extensions.some
    /\ ~a.directories.some
    /\ ~a.chunk_types.some
    /\ ~a.languages.some

\* the arguments that make up the key of the lru_cache entry
CacheKey(a, mode) == [a EXCEPT !.use_cache = TRUE, !.mode = mode]

\* VectorStore.search (lines 179-279): the outcome, the queries issued and the
\* cache afterwards
search(t, c, enabled, a, e) ==
    LET mode == ResolveMode(a)
        key == CacheKey(a, mode)
        cached == enabled /\ a.use_cache /\ HashableArgs(a)
        hit == cached /\ \E x \in c : x.q = key
        routed == Route(t, mode, a, e)
        fail == [kind |-> "raise", error |-> "ValueError", mode |-> mode,
                 engine |-> e, hit |-> FALSE, scored |-> <<>>, results |-> <<>>]
    IN  IF mode = "ValueError" \/ MissingVector(mode, a) \/ MissingText(mode, a)
        THEN [outcome |-> fail, issued |-> <<>>, cache |-> c]
        ELSE IF hit
        THEN [outcome |-> [kind |-> "return", error |-> "", mode |-> mode,
                           engine |-> e, hit |-> TRUE, scored |-> <<>>,
                           results |-> (CHOOSE x \in c : x.q = key).result],
              issued |-> <<>>, cache |-> c]
        ELSE IF routed.raised
        THEN [outcome |-> fail, issued |-> routed.issued, cache |-> c]
        ELSE LET results == post_filter(routed.results, a.min_score)
             IN  [outcome |-> [kind |-> "return", error |-> "", mode |-> mode,
                               engine |-> e, hit |-> FALSE,
                               scored |-> routed.results, results |-> results],
                  issued |-> routed.issued,
                  cache |-> IF cached THEN c \cup {[q |-> key, result |-> results]}
                            ELSE c]

\* ------------------------------------------------- search calls (store.py)
\* search's default limit (line 182)
DefaultLimit == 10

\* the filter arguments of a call
FilterArgs ==
    [extensions : {None, Some(<<>>), Some(<<Ext_p>>), Some(<<Ext_p, Ext_m>>)},
     directories : {None, Some(<<Dir_s>>)},
     chunk_types : {None, Some(<<"function">>)},
     languages : {None, Some(<<"python">>)},
     file_filter : {None, Some(<<"a", "_", "b">>)},
     branch_filter : {None, Some("main")}]

NoFilters ==
    [extensions |-> None, directories |-> None, chunk_types |-> None,
     languages |-> None, file_filter |-> None, branch_filter |-> None]

\* every combination of mode, query text and query vector; min_score in hundredths
QueryArgs ==
    [op : {"search"},
     mode : Modes,
     query_text : {None, Some(""), Some("foo")},
     query_vector : {None, Some(<<>>), Some(<<"x1", "x2">>)},
     limit : {DefaultLimit},
     min_score : {0, 50},
     use_cache : BOOLEAN]

\* the queries that are combined with every combination of filters
FilteredQueryArgs ==
    [op : {"search"},
     mode : {"vector", "fts", "hybrid"},
     query_text : {Some("foo")},
     query_vector : {Some(<<"x1", "x2">>)},
     limit : {1, DefaultLimit},
     min_score : {0},
     use_cache : {TRUE}]

Merge(q, f) ==
    [k \in DOMAIN q \cup DOMAIN f |-> IF k \in DOMAIN q THEN q[k] ELSE f[k]]

SearchCalls ==
    {Merge(q, NoFilters) : q \in QueryArgs}
        \cup {Merge(q, f) : q \in FilteredQueryArgs, f \in FilterArgs}

SearchTables == {SetToBag(S) : S \in {T \in SUBSET SearchRows : Cardinality(T) <= MaxRows}}

\* whether the engine can run a keyword / a hybrid query
Engines == [fts : {"ok", "unavailable"}, hybrid : {"ok", "unavailable"}]

IndexerAtRest ==
    /\ pc = "idle"
    /\ run = 0
    /\ target = "dir"
    /\ force = FALSE
    /\ current_branch = NoBranch
    /\ cfg = [parallel |-> FALSE, batch |-> TRUE, cleanup |-> TRUE]
    /\ files = {}
    /\ in_parallel = FALSE
    /\ fpc = [p \in Paths |-> "none"]
    /\ fres = [p \in Paths |-> "none"]
    /\ fhash = [p \in Paths |-> EmptyHash]
    /\ next = [p \in Paths |-> 1]
    /\ queue = <<>>
    /\ held = [w \in Workers |-> <<>>]
    /\ nfail = 0
    /\ table0 = EmptyBag
    /\ failed = {}
    /\ batchFail = FALSE
    /\ cleanFail = FALSE
    /\ dropped = {}
    /\ inserted = EmptyBag
    /\ afterDrop = {}
    /\ order = [p \in Paths |-> "none"]
    /\ edited = FALSE
    /\ repeat = FALSE
    /\ NoProgress
    /\ lock = Free
    /\ WatcherAtRest

\* a store holding some rows, and the arguments of the search calls to come
InitSearch ==
    /\ IndexerAtRest
    /\ TableUnopened
    /\ disk = [p \in Paths |-> Absent]
    /\ table \in SearchTables
    /\ cache = {}
    /\ cache_enabled = TRUE
    /\ lastSearch = [q |-> "none", result |-> EmptyBag, fresh |-> EmptyBag]
    /\ nsearch = 0
    /\ call \in SearchCalls
    /\ outcome = [kind |-> "none"]
    /\ issued = <<>>

\* VectorStore.search is called with the arguments
SearchCall(e) ==
    /\ LET s == search(table, cache, cache_enabled, call, e)
       IN  /\ outcome' = s.outcome
           /\ issued' = s.issued
           /\ cache' = s.cache
    /\ UNCHANGED <<tableVars, watchVars, progVars, lock, disk, table, cache_enabled, lastSearch, nsearch, call, runVars,
                   histVars>>

NextSearch == \E e \in Engines : SearchCall(e)

SpecSearch == InitSearch /\ [][NextSearch]_vars

\* ------------------------------------- result enhancer (result_enhancer.py)
\* a SearchResult as the enhancer reads it; score and indexed_at in hundredths
Result(p, s, e, ts, text, score) ==
    [chunk |-> [text |-> text, path |-> p, start_line |-> s, end_line |-> e,
                language |-> "python", chunk_type |-> "function", name |-> "f",
                vector |-> "v", file_hash |-> "h", indexed_at |-> ts,
                branch |-> "main"],
     score |-> score]

\* a fraction num / den with den > 0
Frac(n, d) == [num |-> n, den |-> d]

\* x >= y for fractions
AtLeast(x, y) == x.num * y.den >= y.num * x.den

Max2(a, b) == IF a >= b THEN a ELSE b

Min2(a, b) == IF a <= b THEN a ELSE b

\* _calculate_overlap (lines 200-229)
calculate_overlap(start1, end1, start2, end2) ==
    LET overlap_start == Max2(start1, start2)
        overlap_end == Min2(end1, end2)
        overlap_lines == overlap_end - overlap_start + 1
        smaller_range == Min2(end1 - start1 + 1, end2 - start2 + 1)
    IN  IF overlap_start > overlap_end THEN Frac(0, 1)
        ELSE IF smaller_range > 0 THEN Frac(overlap_lines, smaller_range)
        ELSE Frac(0, 1)

\* r goes behind the results of the sorted list s that score at least as high
InsertByScore(s, r) ==
    LET k == Cardinality({i \in DOMAIN s : s[i].score >= r.score})
    IN  SubSeq(s, 1, k) \o <<r>> \o SubSeq(s, k + 1, Len(s))

\* list.sort(key=lambda r: r.score, reverse=True): descending and stable
RECURSIVE SortByScore(_)
SortByScore(s) ==
    IF s = <<>> THEN <<>>
    ELSE InsertByScore(SortByScore(SubSeq(s, 1, Len(s) - 1)), s[Len(s)])

\* deduplicate lines 45-50: the paths in the order of their first result
RECURSIVE PathsInOrder(_)
PathsInOrder(results) ==
    IF results = <<>> THEN <<>>
    ELSE LET before == PathsInOrder(SubSeq(results, 1, Len(results) - 1))
             path == results[Len(results)].chunk.path
         IN  IF \E i \in DOMAIN before : before[i] = path THEN before
             ELSE Append(before, path)

\* by_file[path]
FileResults(results, path) == SelectSeq(results, LAMBDA r : r.chunk.path = path)

\* deduplicate lines 61-69: the result overlaps a kept one by the threshold or more
OverlapsKeptNever(result, kept, overlap_threshold) == FALSE

OverlapsKept(result, kept, overlap_threshold) ==
    \E i \in DOMAIN kept :
        AtLeast(calculate_overlap(result.chunk.start_line, result.chunk.end_line,
                                  kept[i].chunk.start_line, kept[i].chunk.end_line),
                overlap_threshold)

\* deduplicate lines 58-72: the greedy pass over one file's sorted results
RECURSIVE KeepFrom(_, _, _)
KeepFrom(kept, file_results, overlap_threshold) ==
    IF file_results = <<>> THEN kept
    ELSE LET result == Head(file_results)
         IN  KeepFrom(IF OverlapsKept(result, kept, overlap_threshold)
                      THEN kept ELSE Append(kept, result),
                      Tail(file_results), overlap_threshold)

\* deduplicate lines 53-74: the kept results of each file, file after file
RECURSIVE KeptOf(_, _, _)
KeptOf(paths, results, overlap_threshold) ==
    IF paths = <<>> THEN <<>>
    ELSE KeepFrom(<<>>, SortByScore(FileResults(results, Head(paths))), overlap_threshold)
             \o KeptOf(Tail(paths), results, overlap_threshold)

\* deduplicate line 77: deduplicated.sort(...)
ResortSkipped(deduplicated) == deduplicated

Resort(deduplicated) == SortByScore(deduplicated)

\* ResultEnhancer.deduplicate (lines 23-80)
deduplicate(results, overlap_threshold) ==
    IF results = <<>> THEN results
    ELSE Resort(KeptOf(PathsInOrder(results), results, overlap_threshold))

MinOf(S) == CHOOSE x \in S : \A y \in S : x <= y

MaxOf(S) == CHOOSE x \in S : \A y \in S : x >= y

\* rerank_by_recency lines 188-191: min(1.0, score + recency_weight * normalized)
BoostedScoreUnboosted(score, recency_weight, indexed_at, min_ts, ts_range) == score

BoostedScore(score, recency_weight, indexed_at, min_ts, ts_range) ==
    Min2(100, score + (recency_weight * (indexed_at - min_ts)) \div ts_range)

\* ResultEnhancer.rerank_by_recency (lines 153-198); recency_weight in hundredths
rerank_by_recency(results, recency_weight) ==
    IF results = <<>> \/ recency_weight = 0 THEN results
    ELSE LET timestamps == {results[i].chunk.indexed_at : i \in DOMAIN results}
             min_ts == MinOf(timestamps)
             ts_range == MaxOf(timestamps) - min_ts
         IN  IF ts_range = 0 THEN results
             ELSE SortByScore([i \in DOMAIN results |->
                      [chunk |-> results[i].chunk,
                       score |-> BoostedScore(results[i].score, recency_weight,
                                              results[i].chunk.indexed_at, min_ts,
                                              ts_range)]])

\* what expand_context finds at project_root / path: no file, a file that cannot
\* be read, or a file of 0, 1, 2 or 4 lines
Unreadable == "unreadable"
FileStates == {Absent, Unreadable, "n0", "n1", "n2", "n4"}

\* len(f.readlines())
NumLines(c) ==
    CASE c = "n1" -> 1
      [] c = "n2" -> 2
      [] c = "n4" -> 4
      [] OTHER -> 0

\* ''.join(lines[start_line - 1:end_line]): the lines start_line..end_line of the
\* file that exist
Slice(c, start_line, end_line) ==
    LET first == Max2(start_line, 1)
        last == Min2(end_line, NumLines(c))
    IN  IF first > last THEN <<>>
        ELSE [i \in 1..(last - first + 1) |-> <<c, first + i - 1>>]

\* CodeChunk declares start_line and end_line ge=1 (models.py lines 24-25)
ValidChunk(start_line, end_line) == start_line >= 1 /\ end_line >= 1

\* expand_context lines 123-124
ExpandedStart(start_line, lines_before) == Max2(1, start_line - lines_before)

ExpandedEnd(end_line, lines_after, n) == Min2(n, end_line + lines_after)

\* a chunk that takes a new indexed_at (the field's default) instead of the
\* original's
ExpandedChunkRestamped(chunk, text, start_line, end_line) ==
    [text |-> text, path |-> chunk.path, start_line |-> start_line,
     end_line |-> end_line, language |-> chunk.language,
     chunk_type |-> chunk.chunk_type, name |-> chunk.name, vector |-> chunk.vector,
     file_hash |-> chunk.file_hash, indexed_at |-> chunk.indexed_at + 1,
     branch |-> chunk.branch]

\* the CodeChunk built at lines 130-142
ExpandedChunk(chunk, text, start_line, end_line) ==
    [text |-> text, path |-> chunk.path, start_line |-> start_line,
     end_line |-> end_line, language |-> chunk.language,
     chunk_type |-> chunk.chunk_type, name |-> chunk.name, vector |-> chunk.vector,
     file_hash |-> chunk.file_hash, indexed_at |-> chunk.indexed_at,
     branch |-> chunk.branch]

\* expand_context lines 109-149 for one result, the file being in state c
ExpandOne(result, c, lines_before, lines_after) ==
    LET start_line == ExpandedStart(result.chunk.start_line, lines_before)
        end_line == ExpandedEnd(result.chunk.end_line, lines_after, NumLines(c))
    IN  IF c = Absent \/ c = Unreadable \/ ~ValidChunk(start_line, end_line)
        THEN result
        ELSE [chunk |-> ExpandedChunk(result.chunk, Slice(c, start_line, end_line),
                                      start_line, end_line),
              score |-> result.score]

\* ResultEnhancer.expand_context (lines 82-151)
expand_context(results, lines_before, lines_after, project_root, d) ==
    IF results = <<>> \/ ~project_root.some THEN results
    ELSE [i \in DOMAIN results |->
             ExpandOne(results[i], d[results[i].chunk.path], lines_before, lines_after)]

\* ------------------------------------------- ctx_search (mcp_server.py)
\* the defaults ctx_search reads from the configuration
OverlapThresholdDefault == Frac(1, 2)

\* recency_weight, in hundredths
RecencyWeightDefault == 10

ContextLinesDefault == 3

\* an optional flag of the call, resolved as at lines 120-123
Flags == {"None", "True", "False"}

Resolved(flag, default) == IF flag = "None" THEN default ELSE flag = "True"

\* line 136
SearchLimit(limit, should_dedup) == IF should_dedup THEN limit * 2 ELSE limit

\* a slice that keeps everything
TrimSkipped(results, limit) == results

\* results[:limit] for limit >= 0 (line 166)
Trim(results, limit) == Take(results, limit)

\* one entry of the response (lines 182-192); round(score, 3) keeps hundredths
Formatted(result) ==
    [path |-> result.chunk.path, start_line |-> result.chunk.start_line,
     end_line |-> result.chunk.end_line, code |-> result.chunk.text,
     score |-> result.score, language |-> result.chunk.language,
     chunk_type |-> result.chunk.chunk_type, name |-> result.chunk.name,
     branch |-> result.chunk.branch]

\* the response of lines 196-201
Response(results) ==
    [kind |-> "return", error |-> FALSE, count |-> Len(results),
     results |-> [i \in DOMAIN results |-> Formatted(results[i])]]

\* the responses of lines 111-115 and 203-208
ErrorResponse == [kind |-> "return", error |-> TRUE, count |-> 0, results |-> <<>>]

\* ctx_search (lines 111-208). a.store says whether the store is initialized,
\* a.search whether store.search returns or raises, a.found is the ranked list of
\* the rows that match the query, of which store.search returns at most its limit
ctx_search(a, d) ==
    IF a.store = "none" THEN ErrorResponse
    ELSE LET should_expand == Resolved(a.expand_context, FALSE)
             should_dedup == Resolved(a.deduplicate, TRUE)
             search_limit == SearchLimit(a.limit, should_dedup)
             found == Take(a.found, search_limit)
             deduped == IF should_dedup
                        THEN deduplicate(found, OverlapThresholdDefault)
                        ELSE found
             reranked == rerank_by_recency(deduped, RecencyWeightDefault)
             trimmed == Trim(reranked, a.limit)
             expanded == IF should_expand
                         THEN expand_context(trimmed, ContextLinesDefault,
                                             ContextLinesDefault, Some("root"), d)
                         ELSE trimmed
         IN  IF a.search = "raise" THEN ErrorResponse ELSE Response(expanded)

\* ------------------------------------- enhancer calls (result_enhancer.py)
SeqsUpTo(S, n) == UNION {[1..k -> S] : k \in 0..n}

LineRanges == {<<1, 4>>, <<3, 6>>, <<5, 8>>}

\* overlap_threshold: 0.0, 0.5 (the default) and 1.0
Thresholds == {Frac(0, 1), Frac(1, 2), Frac(1, 1)}

DedupResults ==
    {Result(p, r[1], r[2], 0, <<>>, s) : p \in Paths, r \in LineRanges, s \in {50, 100}}

RerankResults ==
    {Result("a.py", 1, 4, ts, <<>>, s) : ts \in {0, 100, 200}, s \in {50, 95, 100}}

ExpandResults ==
    {Result(p, r[1], r[2], 0, <<>>, 50) : p \in Paths, r \in {<<1, 2>>, <<3, 4>>}}

\* the largest limit of a ctx_search call
MaxLimit == 2

\* rows that match a query: three ranges of a.py, the first two overlapping by
\* half, and one of b.py, indexed at different times
CtxResults ==
    {Result("a.py", 1, 4, 0, <<>>, 95), Result("a.py", 1, 4, 100, <<>>, 95),
     Result("a.py", 3, 6, 100, <<>>, 50), Result("a.py", 7, 8, 0, <<>>, 50),
     Result("b.py", 1, 4, 100, <<>>, 50)}

\* the engine ranks by descending score
CtxFound ==
    {f \in SeqsUpTo(CtxResults, 2 * MaxLimit) :
        \A i \in 1..(Len(f) - 1) : f[i].score >= f[i + 1].score}

CtxCalls ==
    [op : {"ctx_search"}, store : {"ready"}, search : {"ok"}, found : CtxFound,
     limit : 0..MaxLimit, deduplicate : Flags, expand_context : Flags]
    \cup [op : {"ctx_search"}, store : {"ready", "none"}, search : {"ok", "raise"},
          found : {f \in CtxFound : Len(f) <= 1}, limit : {1},
          deduplicate : {"None"}, expand_context : {"None"}]

EnhancerCalls ==
    [op : {"deduplicate"}, results : SeqsUpTo(DedupResults, MaxResults),
     overlap_threshold : Thresholds]
    \cup [op : {"rerank_by_recency"}, results : SeqsUpTo(RerankResults, MaxResults),
          recency_weight : {0, 10}]
    \cup [op : {"expand_context"}, results : SeqsUpTo(ExpandResults, MaxResults),
          lines_before : {0, 1}, lines_after : {0, 1},
          project_root : {None, Some("root")}]
    \cup CtxCalls

\* a result list handed to the enhancer, and the files under the project root
InitEnhance ==
    /\ IndexerAtRest
    /\ TableUnopened
    /\ call \in EnhancerCalls
    /\ disk \in [Paths -> FileStates]
    /\ \/ call.op = "expand_context" /\ disk["b.py"] = "n4"
       \/ call.op = "ctx_search" /\ disk = [p \in Paths |-> "n4"]
       \/ call.op \in {"deduplicate", "rerank_by_recency"}
             /\ disk = [p \in Paths |-> Absent]
    /\ table = EmptyBag
    /\ cache = {}
    /\ cache_enabled = TRUE
    /\ lastSearch = [q |-> "none", result |-> EmptyBag, fresh |-> EmptyBag]
    /\ nsearch = 0
    /\ outcome = [kind |-> "none"]
    /\ issued = <<>>

Returns(results) ==
    /\ outcome' = [kind |-> "return", results |-> results]
    /\ UNCHANGED <<tableVars, watchVars, progVars, lock, disk, storeVars, runVars, histVars, call, issued>>

Deduplicate ==
    /\ call.op = "deduplicate"
    /\ outcome.kind = "none"
    /\ Returns(deduplicate(call.results, call.overlap_threshold))

RerankByRecency ==
    /\ call.op = "rerank_by_recency"
    /\ outcome.kind = "none"
    /\ Returns(rerank_by_recency(call.results, call.recency_weight))

ExpandContext ==
    /\ call.op = "expand_context"
    /\ outcome.kind = "none"
    /\ Returns(expand_context(call.results, call.lines_before, call.lines_after,
                              call.project_root, disk))

CtxSearch ==
    /\ call.op = "ctx_search"
    /\ outcome.kind = "none"
    /\ outcome' = ctx_search(call, disk)
    /\ UNCHANGED <<tableVars, watchVars, progVars, lock, disk, storeVars, runVars, histVars, call, issued>>

NextEnhance ==
    \/ Deduplicate
    \/ RerankByRecency
    \/ ExpandContext
    \/ CtxSearch

SpecEnhance == InitEnhance /\ [][NextEnhance]_vars

\* ------------------------------- file discovery (indexer.py, git_utils.py)
\* file names and patterns, as sequences of characters
A_py == <<"a", ".", "p", "y">>
B_py == <<"b", ".", "p", "y">>
C_pyc == <<"c", ".", "p", "y", "c">>
Gitignore == <<".", "g", "i", "t", "i", "g", "n", "o", "r", "e">>

\* DEFAULT_CONFIG["indexer"]["exclude"] (config.py lines 21-33)
DefaultExclude ==
    << <<"n", "o", "d", "e", "_", "m", "o", "d", "u", "l", "e", "s">>,
       <<"*", ".", "m", "i", "n", ".", "j", "s">>,
       <<"d", "i", "s", "t">>,
       <<"b", "u", "i", "l", "d">>,
       <<".", "v", "e", "n", "v">>,
       <<"v", "e", "n", "v">>,
       <<"_", "_", "p", "y", "c", "a", "c", "h", "e", "_", "_">>,
       <<"*", ".", "p", "y", "c">>,
       <<".", "g", "i", "t">>,
       <<".", "c", "t", "x", "d">>,
       <<".", "c", "t", "x", "c", "a", "c", "h", "e">> >>

\* a glob of the gitwildmatch style without a slash, against a file name: * matches
\* any run of characters, every other character itself
RECURSIVE GlobMatch(_, _)
GlobMatch(name, glob) ==
    IF glob = <<>> THEN name = <<>>
    ELSE IF Head(glob) = "*"
         THEN \E k \in 0..Len(name) : GlobMatch(SubSeq(name, k + 1, Len(name)), Tail(glob))
         ELSE /\ name # <<>>
              /\ Head(glob) = Head(name)
              /\ GlobMatch(Tail(name), Tail(glob))

\* a line of patterns: blank lines and comments say nothing, a leading ! negates
IsPattern(line) == line # <<>> /\ Head(line) # "#"

Negated(line) == Head(line) = "!"

GlobOf(line) == IF Negated(line) THEN Tail(line) ELSE line

\* PathSpec.match_file: the last pattern that matches the file decides, a negated
\* one against; no match is no
RECURSIVE match_file(_, _)
match_file(lines, name) ==
    IF lines = <<>> THEN FALSE
    ELSE LET last == lines[Len(lines)]
         IN  IF IsPattern(last) /\ GlobMatch(name, GlobOf(last))
             THEN ~Negated(last)
             ELSE match_file(SubSeq(lines, 1, Len(lines) - 1), name)

\* GitUtils.load_nested_gitignore (git_utils.py lines 111-173) for a directory
\* without subdirectories: the lines of its .gitignore, if it has one
load_nested_gitignore(dir, gitignore) ==
    IF Gitignore \notin dir \/ gitignore = <<>> THEN None ELSE Some(gitignore)

\* the file is left out by the .gitignore patterns (line 489)
IgnoredNever(gitignore_spec, name) == FALSE

Ignored(gitignore_spec, name) ==
    gitignore_spec.some /\ match_file(gitignore_spec.v, name)

\* Indexer._discover_files (lines 475-498)
discover_files(dir, gitignore, exclude_patterns) ==
    LET gitignore_spec == load_nested_gitignore(dir, gitignore)
    IN  {name \in dir : /\ ~Ignored(gitignore_spec, name)
                        /\ ~match_file(exclude_patterns, name)}

\* directories of up to four files, and what their .gitignore says
Names == {A_py, B_py, C_pyc, Gitignore}

GitignoreLines == {B_py, <<"*", ".", "p", "y">>, <<"!">> \o A_py, <<"#">>, <<>>}

MaxLines == 2

DiscoverCalls ==
    [op : {"discover_files"}, dir : SUBSET Names,
     gitignore : SeqsUpTo(GitignoreLines, MaxLines)]

InitDiscover ==
    /\ IndexerAtRest
    /\ TableUnopened
    /\ call \in DiscoverCalls
    /\ disk = [p \in Paths |-> Absent]
    /\ table = EmptyBag
    /\ cache = {}
    /\ cache_enabled = TRUE
    /\ lastSearch = [q |-> "none", result |-> EmptyBag, fresh |-> EmptyBag]
    /\ nsearch = 0
    /\ outcome = [kind |-> "none"]
    /\ issued = <<>>

DiscoverFiles ==
    /\ call.op = "discover_files"
    /\ outcome.kind = "none"
    /\ outcome' = [kind |-> "return",
                   files |-> discover_files(call.dir, call.gitignore, DefaultExclude)]
    /\ UNCHANGED <<tableVars, watchVars, progVars, lock, disk, storeVars, runVars, histVars, call, issued>>

NextDiscover == DiscoverFiles

SpecDiscover == InitDiscover /\ [][NextDiscover]_vars

\* ------------------------- chunkers (chunkers/markdown.py, chunkers/fallback.py)
\* a content is a sequence of characters; NL is the line feed
NL == "\n"

Whitespace == {" ", NL}

\* str.lstrip, str.rstrip, str.strip
RECURSIVE LStrip(_)
LStrip(s) == IF s # <<>> /\ Head(s) \in Whitespace THEN LStrip(Tail(s)) ELSE s

RECURSIVE RStrip(_)
RStrip(s) ==
    IF s # <<>> /\ s[Len(s)] \in Whitespace THEN RStrip(SubSeq(s, 1, Len(s) - 1)) ELSE s

Strip(s) == RStrip(LStrip(s))

\* the places where sep begins in s
Occurrences(s, sep) ==
    {k \in 1..(Len(s) - Len(sep) + 1) : SubSeq(s, k, k + Len(sep) - 1) = sep}

\* str.split(sep): cut at each occurrence of sep, from the left
RECURSIVE Split(_, _)
Split(s, sep) ==
    IF Occurrences(s, sep) = {} THEN <<s>>
    ELSE LET k == CHOOSE i \in Occurrences(s, sep) : \A j \in Occurrences(s, sep) : i <= j
         IN  <<SubSeq(s, 1, k - 1)>> \o Split(SubSeq(s, k + Len(sep), Len(s)), sep)

\* str.split(): the runs of characters that are not whitespace
RECURSIVE Words(_)
Words(s) ==
    LET t == LStrip(s)
        stops == {k \in DOMAIN t : t[k] \in Whitespace}
        k == IF stops = {} THEN Len(t) + 1
             ELSE CHOOSE i \in stops : \A j \in stops : i <= j
    IN  IF t = <<>> THEN <<>>
        ELSE <<SubSeq(t, 1, k - 1)>> \o Words(SubSeq(t, k, Len(t)))

\* sep.join(parts)
RECURSIVE Join(_, _)
Join(parts, sep) ==
    IF parts = <<>> THEN <<>>
    ELSE IF Len(parts) = 1 THEN parts[1]
    ELSE parts[1] \o sep \o Join(Tail(parts), sep)

\* str.count
Count(s, ch) == Cardinality({k \in DOMAIN s : s[k] = ch})

\* not content.strip()
Blank(content) == Strip(content) = <<>>

\* the number of # at the start of a line
RECURSIVE Hashes(_)
Hashes(line) == IF line # <<>> /\ Head(line) = "#" THEN 1 + Hashes(Tail(line)) ELSE 0

\* the whitespace characters from position k on
RECURSIVE SpaceRun(_, _)
SpaceRun(line, k) ==
    IF k <= Len(line) /\ line[k] \in Whitespace THEN 1 + SpaceRun(line, k + 1) ELSE 0

\* re.match(r'^(#{1,6})\s+(.+)$', line) (markdown.py line 48): one to six #, then
\* whitespace, then at least one more character
HeaderMatch(line) ==
    /\ Hashes(line) \in 1..6
    /\ SpaceRun(line, Hashes(line) + 1) >= 1
    /\ Len(line) >= Hashes(line) + 2

\* header_match.group(2): what follows the whitespace, or the last whitespace
\* character when nothing follows
Group2(line) ==
    LET after == Hashes(line) + SpaceRun(line, Hashes(line) + 1)
    IN  IF after < Len(line) THEN SubSeq(line, after + 1, Len(line))
        ELSE SubSeq(line, Len(line), Len(line))

\* MarkdownChunker._make_chunk (markdown.py lines 103-109)
make_chunk(lines, start, end, name) ==
    [text |-> Join(lines, <<NL>>), start_line |-> start, end_line |-> end,
     chunk_type |-> "section", name |-> name]

\* the end of the chunk a header at line i closes
PreviousEndSame(i) == i

PreviousEnd(i) == i - 1

\* the loop of markdown.py lines 46-62 from line i on
RECURSIVE Sections(_, _, _, _, _, _)
Sections(lines, i, current_chunk, current_start, header_name, chunks) ==
    IF i > Len(lines)
    THEN \* lines 65-68
         IF current_chunk # <<>>
         THEN Append(chunks, make_chunk(current_chunk, current_start, Len(lines),
                                        header_name))
         ELSE chunks
    ELSE IF HeaderMatch(lines[i])
    THEN Sections(lines, i + 1, <<lines[i]>>, i, Some(Strip(Group2(lines[i]))),
                  IF current_chunk # <<>>
                  THEN Append(chunks, make_chunk(current_chunk, current_start,
                                                 PreviousEnd(i), header_name))
                  ELSE chunks)
    ELSE Sections(lines, i + 1, Append(current_chunk, lines[i]), current_start,
                  header_name, chunks)

\* the chunk of markdown.py lines 75-80 and fallback.py lines 52-57
WholeFile(content) ==
    [text |-> content, start_line |-> 1, end_line |-> Len(Split(content, <<NL>>)),
     chunk_type |-> "block", name |-> None]

\* MarkdownChunker.chunk (markdown.py lines 36-82)
markdown_chunk(content) ==
    IF Blank(content) THEN <<>>
    ELSE LET chunks == Sections(Split(content, <<NL>>), 1, <<>>, 1, None, <<>>)
         IN  IF chunks # <<>> THEN chunks ELSE <<WholeFile(content)>>

\* FallbackChunker._split_into_paragraphs (fallback.py lines 91-92)
split_into_paragraphs(content) ==
    LET paragraphs == Split(content, <<NL, NL>>)
    IN  [i \in DOMAIN SelectSeq(paragraphs, LAMBDA q : Strip(q) # <<>>) |->
            Strip(SelectSeq(paragraphs, LAMBDA q : Strip(q) # <<>>)[i])]

\* a chunk of the paragraph kind (fallback.py lines 72-77, 122-127)
Paragraph(text, start_line, line_count) ==
    [text |-> text, start_line |-> start_line, end_line |-> start_line + line_count - 1,
     chunk_type |-> "paragraph", name |-> None]

\* FallbackChunker._split_large_paragraph (fallback.py lines 109-134), the words
\* counted from 1
RECURSIVE SplitLarge(_, _, _, _, _)
SplitLarge(words, i, current_line, max_chunk_size, chunk_overlap) ==
    IF i > Len(words) THEN <<>>
    ELSE LET chunk_text == Join(SubSeq(words, i, Min2(Len(words), i + max_chunk_size - 1)),
                                <<" ">>)
             line_count == Count(chunk_text, NL) + 1
         IN  <<Paragraph(chunk_text, current_line, line_count)>>
             \o SplitLarge(words, i + max_chunk_size - chunk_overlap,
                           current_line + line_count, max_chunk_size, chunk_overlap)

\* the loop of fallback.py lines 62-83 over the paragraphs from the k-th on
RECURSIVE Paragraphs(_, _, _, _, _)
Paragraphs(paragraphs, k, current_line, max_chunk_size, chunk_overlap) ==
    IF k > Len(paragraphs) THEN <<>>
    ELSE LET para == paragraphs[k]
             para_lines == Count(para, NL) + 1
         IN  (IF Blank(para) THEN <<>>
              ELSE IF Len(Words(para)) <= max_chunk_size
              THEN <<Paragraph(para, current_line, para_lines)>>
              ELSE SplitLarge(Words(para), 1, current_line, max_chunk_size,
                              chunk_overlap))
             \o Paragraphs(paragraphs, k + 1,
                           IF Blank(para) THEN current_line
                           ELSE current_line + para_lines,
                           max_chunk_size, chunk_overlap)

\* FallbackChunker.chunk (fallback.py lines 44-86)
fallback_chunk(content, max_chunk_size, chunk_overlap) ==
    IF Blank(content) THEN <<>>
    ELSE IF split_into_paragraphs(content) = <<>> THEN <<WholeFile(content)>>
    ELSE Paragraphs(split_into_paragraphs(content), 1, 1, max_chunk_size, chunk_overlap)

\* ----------------------------------------------------- chunker calls
\* the longest content
MaxContent == 6

\* FallbackChunker.__init__ defaults (fallback.py line 22)
MaxChunkSizeDefault == 500

ChunkOverlapDefault == 50

Characters == {"#", " ", "x", NL}

ChunkerCalls ==
    [op : {"markdown_chunk"}, content : SeqsUpTo(Characters, MaxContent)]
    \cup [op : {"fallback_chunk"}, content : SeqsUpTo(Characters \ {"#"}, MaxContent),
          size : {[max_chunk_size |-> MaxChunkSizeDefault,
                   chunk_overlap |-> ChunkOverlapDefault],
                  [max_chunk_size |-> 1, chunk_overlap |-> 0]}]

InitChunk ==
    /\ IndexerAtRest
    /\ TableUnopened
    /\ call \in ChunkerCalls
    /\ disk = [p \in Paths |-> Absent]
    /\ table = EmptyBag
    /\ cache = {}
    /\ cache_enabled = TRUE
    /\ lastSearch = [q |-> "none", result |-> EmptyBag, fresh |-> EmptyBag]
    /\ nsearch = 0
    /\ outcome = [kind |-> "none"]
    /\ issued = <<>>

Chunks(chunks) ==
    /\ outcome.kind = "none"
    /\ outcome' = [kind |-> "return", chunks |-> chunks]
    /\ UNCHANGED <<tableVars, watchVars, progVars, lock, disk, storeVars, runVars, histVars, call, issued>>

MarkdownChunk ==
    /\ call.op = "markdown_chunk"
    /\ Chunks(markdown_chunk(call.content))

FallbackChunk ==
    /\ call.op = "fallback_chunk"
    /\ Chunks(fallback_chunk(call.content, call.size.max_chunk_size,
                             call.size.chunk_overlap))

NextChunk ==
    \/ MarkdownChunk
    \/ FallbackChunk

SpecChunk == InitChunk /\ [][NextChunk]_vars

\* ---------------- FallbackChunker.chunk loop by loop (chunkers/fallback.py 44-134)
\* the chunks are counted, up to MaxChunks
MaxChunks == 3

\* max_chunk_size and chunk_overlap: the defaults, one word per chunk, and the
\* overlap as large as the chunk, as TreeSitterChunker builds its fallback
\* chunker (treesitter.py lines 147-150) from a max_chunk_size of 50
SplitSizes ==
    {[max_chunk_size |-> MaxChunkSizeDefault, chunk_overlap |-> ChunkOverlapDefault],
     [max_chunk_size |-> 1, chunk_overlap |-> 0],
     [max_chunk_size |-> 1, chunk_overlap |-> 1]}

\* the longest content of a call followed loop by loop
MaxSplitContent == 3

SplitCalls ==
    [op : {"chunk"}, content : SeqsUpTo(Characters \ {"#"}, MaxSplitContent),
     size : SplitSizes]

InitSplit ==
    /\ IndexerAtRest
    /\ TableUnopened
    /\ call \in SplitCalls
    /\ disk = [p \in Paths |-> Absent]
    /\ table = EmptyBag
    /\ cache = {}
    /\ cache_enabled = TRUE
    /\ lastSearch = [q |-> "none", result |-> EmptyBag, fresh |-> EmptyBag]
    /\ nsearch = 0
    /\ outcome = [kind |-> "none", k |-> 0, i |-> 0, n |-> 0]
    /\ issued = <<>>

\* chunks.append
Appended1(n) == IF n < MaxChunks THEN n + 1 ELSE MaxChunks

\* i += self.max_chunk_size - self.chunk_overlap (line 132)
NextWord(i, size) == i + size.max_chunk_size - size.chunk_overlap

\* a step of the chunker: only outcome changes
ChunkerStep(kind) ==
    /\ call.op = "chunk"
    /\ outcome.kind = kind
    /\ UNCHANGED <<tableVars, watchVars, progVars, lock, disk, storeVars, runVars, histVars,
                   call, issued>>

\* chunk lines 44-60: nothing for blank content, else split into paragraphs
ChunkStart ==
    /\ ChunkerStep("none")
    /\ outcome' =
          IF Blank(call.content) THEN [kind |-> "return", k |-> 0, i |-> 0, n |-> 0]
          ELSE IF split_into_paragraphs(call.content) = <<>>
          THEN [kind |-> "return", k |-> 0, i |-> 0, n |-> 1]
          ELSE [kind |-> "paragraphs", k |-> 1, i |-> 0, n |-> 0]

\* chunk lines 62-86: the next paragraph is one chunk or is split; return after
\* the last
NextParagraph ==
    /\ ChunkerStep("paragraphs")
    /\ LET paragraphs == split_into_paragraphs(call.content)
       IN  outcome' =
             IF outcome.k > Len(paragraphs)
             THEN [outcome EXCEPT !.kind = "return"]
             ELSE IF Len(Words(paragraphs[outcome.k])) <= call.size.max_chunk_size
             THEN [outcome EXCEPT !.k = @ + 1, !.n = Appended1(@)]
             ELSE [outcome EXCEPT !.kind = "splitting", !.i = 1]

\* _split_large_paragraph lines 114-134, the words counted from 1: one turn of
\* the while loop, or its end
SplitStep ==
    /\ ChunkerStep("splitting")
    /\ LET words == Words(split_into_paragraphs(call.content)[outcome.k])
       IN  outcome' =
             IF outcome.i > Len(words)
             THEN [outcome EXCEPT !.kind = "paragraphs", !.k = @ + 1, !.i = 0]
             ELSE [outcome EXCEPT !.i = NextWord(@, call.size), !.n = Appended1(@)]

NextSplit ==
    \/ ChunkStart
    \/ NextParagraph
    \/ SplitStep

\* the chunker runs on: a step that is possible is taken
SpecSplit == InitSplit /\ [][NextSplit]_vars /\ WF_vars(NextSplit)

\* ------------------------------ first accesses to VectorStore.table (store.py 72-103)
\* the first accesses come from the threads of one index_path call (the calling
\* thread, then the pool's workers), or from unrelated threads at once
TableCalls == [op : {"table"}, in_index_path : BOOLEAN]

InitTable ==
    /\ IndexerAtRest
    /\ table_names \in SUBSET {TableName}
    /\ table_handle = NoTable
    /\ tpc = [c \in Callers |-> "idle"]
    /\ seen = [c \in Callers |-> NotListed]
    /\ creators = {}
    /\ call \in TableCalls
    /\ disk = [p \in Paths |-> Absent]
    /\ table = EmptyBag
    /\ cache = {}
    /\ cache_enabled = TRUE
    /\ lastSearch = [q |-> "none", result |-> EmptyBag, fresh |-> EmptyBag]
    /\ nsearch = 0
    /\ outcome = [kind |-> "none"]
    /\ issued = <<>>

\* index_path reads self.store.table (indexer.py line 162) before it starts the
\* pool (line 174)
MayAccess(c) ==
    (call.in_index_path /\ c # Main) => tpc[Main] = "returned"

\* a step of caller c in the table property: only table_names, table_handle,
\* tpc, seen and creators can change
TableStep(c, from, to) ==
    /\ call.op = "table"
    /\ tpc[c] = from
    /\ tpc' = [tpc EXCEPT ![c] = to]
    /\ UNCHANGED <<watchVars, progVars, lock, disk, storeVars, runVars, histVars, callVars>>

\* line 75: if self._table is None
CheckTable(c) ==
    /\ MayAccess(c)
    /\ TableStep(c, "idle", IF table_handle = NoTable THEN "names" ELSE "return")
    /\ UNCHANGED <<table_names, table_handle, seen, creators>>

\* lines 76-77: list the tables, choose to open or to create
ListNames(c) ==
    /\ TableStep(c, "names", IF Listed(table_names) = "present" THEN "open" ELSE "create")
    /\ seen' = [seen EXCEPT ![c] = Listed(table_names)]
    /\ UNCHANGED <<table_names, table_handle, creators>>

\* line 78 and line 100: open_table
OpenTable(c) ==
    /\ TableName \in table_names
    /\ \/ TableStep(c, "open", "return")
       \/ TableStep(c, "reopen", "return")
    /\ table_handle' = Opened
    /\ UNCHANGED <<table_names, seen, creators>>

\* lines 96-102: what the handler does with "already exists"
OnAlreadyExistsRaise == "raised"

OnAlreadyExists == "reopen"

\* lines 83-87: create_table(mode="create") makes the table or raises because
\* the table already exists
CreateTable(c) ==
    IF TableName \in table_names
    THEN /\ TableStep(c, "create", OnAlreadyExists)
         /\ UNCHANGED <<table_names, table_handle, seen, creators>>
    ELSE /\ TableStep(c, "create", "fts")
         /\ table_names' = table_names \cup {TableName}
         /\ table_handle' = Opened
         /\ creators' = creators \cup {c}
         /\ seen' = seen

\* lines 89-94: create the FTS index; a failure is logged
CreateFtsIndex(c) ==
    /\ TableStep(c, "fts", "return")
    /\ UNCHANGED <<table_names, table_handle, seen, creators>>

\* line 103: return self._table
ReturnTable(c) ==
    /\ TableStep(c, "return", IF table_handle = NoTable THEN "returned_none" ELSE "returned")
    /\ UNCHANGED <<table_names, table_handle, seen, creators>>

NextTable ==
    \E c \in Callers :
        \/ CheckTable(c)
        \/ ListNames(c)
        \/ OpenTable(c)
        \/ CreateTable(c)
        \/ CreateFtsIndex(c)
        \/ ReturnTable(c)

SpecTable == InitTable /\ [][NextTable]_vars

\* ----------------- delete_by_path / delete_by_branch step by step (store.py 471-527)
\* one delete call, while other threads add chunks to the table and delete from it
DeleteCalls ==
    [op : {"delete_by_path"}, arg : Paths] \cup [op : {"delete_by_branch"}, arg : Branches]

DeleteTables == {BagOfSeq(rows) : rows \in SeqsUpTo(StoreRows, MaxRows)}

InitDelete ==
    /\ IndexerAtRest
    /\ TableUnopened
    /\ call \in DeleteCalls
    /\ disk = [p \in Paths |-> Absent]
    /\ table \in DeleteTables
    /\ cache = {}
    /\ cache_enabled = TRUE
    /\ lastSearch = [q |-> "none", result |-> EmptyBag, fresh |-> EmptyBag]
    /\ nsearch = 0
    /\ outcome = [kind |-> "none"]
    /\ issued = <<>>

Deleting == call.op \in {"delete_by_path", "delete_by_branch"}

\* table.delete(f"path = '{path}'") or table.delete(f"branch = '{branch}'")
AfterDeleteCall(t) ==
    IF call.op = "delete_by_path" THEN delete_by_path(t, call.arg)
    ELSE delete_by_branch(t, call.arg)

\* lines 483 and 512: count_before = self.table.count_rows()
CountBefore ==
    /\ Deleting
    /\ outcome.kind = "none"
    /\ outcome' = [kind |-> "counted", count_before |-> count_rows(table)]
    /\ UNCHANGED <<tableVars, watchVars, progVars, lock, disk, storeVars, runVars, histVars,
                   call, issued>>

\* lines 486 and 515: the delete; removed records how many rows it took out
DeleteMatching ==
    /\ Deleting
    /\ outcome.kind = "counted"
    /\ table' = AfterDeleteCall(table)
    /\ outcome' = [kind |-> "deleted", count_before |-> outcome.count_before,
                   removed |-> count_rows(table) - count_rows(AfterDeleteCall(table))]
    /\ UNCHANGED <<tableVars, watchVars, progVars, lock, disk, cache, cache_enabled,
                   lastSearch, nsearch, runVars, histVars, call, issued>>

\* lines 488-494 and 517-523: count_after, return count_before - count_after
CountAfter ==
    /\ Deleting
    /\ outcome.kind = "deleted"
    /\ outcome' = [kind |-> "return", removed |-> outcome.removed,
                   deleted |-> outcome.count_before - count_rows(table)]
    /\ UNCHANGED <<tableVars, watchVars, progVars, lock, disk, storeVars, runVars, histVars,
                   call, issued>>

NextDelete ==
    \/ CountBefore
    \/ DeleteMatching
    \/ CountAfter
    \/ \E r \in StoreRows : AddChunks(<<r>>)
    \/ \E q \in Paths : DeleteByPath(q)

SpecDelete == InitDelete /\ [][NextDelete]_vars

\* ------------------------------------------------------- watcher (watcher.py)
\* file system events in one watch, and the furthest the clock goes
MaxEvents == 2

MaxClock == 2

\* debounce_seconds=0.1 (watcher.py line 176), in tenths of a second
DebounceTenths == 1

\* event.src_path: the absolute path of a file of the watched directory
SrcPath(p) == "/project/" \o p

\* str(file_path.relative_to(base_path)) with base_path = file_path.parent
\* (watcher.py line 125, indexer.py line 631): the file's name
RelPath(p) == p

\* Indexer.should_index_file (indexer.py lines 517-549): the file can be read
\* and is not too large
should_index_file(p) == disk[p] # Absent /\ ~TooLarge(disk[p])

\* the chunks _index_file stores for the file (indexer.py lines 641-679)
FileRows(p) ==
    [i \in 1..NumChunks(disk[p]) |->
        Row(RelPath(p), <<disk[p], i>>, Sha256(disk[p]), current_branch)]

\* the index of the project as index_path leaves it
IndexOf(d) ==
    SetToBag(UNION {{Row(RelPath(p), <<d[p], i>>, Sha256(d[p]), NoBranch) :
                       i \in 1..NumChunks(d[p])} : p \in Paths})

WatchContents == {Absent, "v1", "v2"}

InitWatch ==
    /\ IndexerAtRest
    /\ TableUnopened
    /\ NoCall
    /\ disk \in [Paths -> WatchContents]
    /\ table = IndexOf(disk)
    /\ cache = {}
    /\ cache_enabled = TRUE
    /\ lastSearch = [q |-> "none", result |-> EmptyBag, fresh |-> EmptyBag]
    /\ nsearch = 0

\* a file system event as the observer gets it
Event(kind, src, dest) == [kind |-> kind, src |-> src, dest |-> dest]

\* the file system reports a change
Emit(e) ==
    /\ os_events.sent < MaxEvents
    /\ os_events' = [sent |-> os_events.sent + 1, waiting |-> Append(os_events.waiting, e)]

\* what the watcher leaves alone when the file system changes
OnlyDisk ==
    UNCHANGED <<tableVars, progVars, lock, storeVars, runVars, histVars, callVars,
                pending_changes, last_event_time, clock, pass, handled, arrived, observer>>

\* a program writes a file of the watched directory
WriteFile(p, c) ==
    /\ c # Absent
    /\ disk[p] # c
    /\ disk' = [disk EXCEPT ![p] = c]
    /\ Emit(Event(IF disk[p] = Absent THEN "created" ELSE "modified", p, p))
    /\ OnlyDisk

\* a program deletes a file
RemoveFile(p) ==
    /\ disk[p] # Absent
    /\ disk' = [disk EXCEPT ![p] = Absent]
    /\ Emit(Event("deleted", p, p))
    /\ OnlyDisk

\* a program renames a file
MoveFile(p, q) ==
    /\ p # q
    /\ disk[p] # Absent
    /\ disk' = [disk EXCEPT ![p] = Absent, ![q] = disk[p]]
    /\ Emit(Event("moved", p, q))
    /\ OnlyDisk

\* a _queue_change call to make
QueueChange(path, event_type) == [path |-> path, event_type |-> event_type]

\* on_modified, on_created, on_deleted, on_moved (watcher.py lines 50-75)
Handler(e) ==
    IF e.kind = "moved"
    THEN <<QueueChange(e.src, "deleted"), QueueChange(e.dest, "created")>>
    ELSE <<QueueChange(e.src, e.kind)>>

\* the observer thread takes the next event and enters its handler
Dispatch ==
    /\ observer.calls = <<>>
    /\ os_events.waiting # <<>>
    /\ observer' = [calls |-> Handler(Head(os_events.waiting)), stamping |-> FALSE]
    /\ os_events' = [os_events EXCEPT !.waiting = Tail(@)]
    /\ UNCHANGED <<tableVars, progVars, lock, disk, storeVars, runVars, histVars, callVars,
                   pending_changes, last_event_time, clock, pass, handled, arrived>>

\* which queued changes _queue_change lets through (lines 87-88)
Queued(p) == should_index_file(p)

\* _queue_change lines 84-90: check the file, record the event type
QueuePut ==
    /\ observer.calls # <<>>
    /\ ~observer.stamping
    /\ LET c == Head(observer.calls)
       IN  IF Queued(c.path)
           THEN /\ pending_changes' = [pending_changes EXCEPT ![c.path] = c.event_type]
                /\ arrived' = Append(arrived, [path |-> c.path, event_type |-> c.event_type,
                                               time |-> clock])
                /\ observer' = [observer EXCEPT !.stamping = TRUE]
           ELSE /\ observer' = [observer EXCEPT !.calls = Tail(@)]
                /\ UNCHANGED <<pending_changes, arrived>>
    /\ UNCHANGED <<tableVars, progVars, lock, disk, storeVars, runVars, histVars, callVars,
                   last_event_time, clock, pass, handled, os_events>>

\* _queue_change lines 91-97: record the time
QueueStamp ==
    /\ observer.stamping
    /\ last_event_time' = clock
    /\ observer' = [calls |-> Tail(observer.calls), stamping |-> FALSE]
    /\ UNCHANGED <<tableVars, progVars, lock, disk, storeVars, runVars, histVars, callVars,
                   pending_changes, clock, pass, handled, arrived, os_events>>

\* time passes
Tick ==
    /\ clock < MaxClock
    /\ clock' = clock + 1
    /\ UNCHANGED <<tableVars, progVars, lock, disk, storeVars, runVars, histVars, callVars,
                   pending_changes, last_event_time, pass, handled, arrived, os_events,
                   observer>>

Pending == {p \in Paths : pending_changes[p] # NoEvent}

\* time.time() - self._last_event_time < self.debounce_seconds (line 110)
Debouncing == clock - last_event_time < DebounceTenths

\* list(self._pending_changes.items()) (line 114), in the dictionary's order
Items ==
    {items \in [1..Cardinality(Pending) -> [path : Pending, event_type : {"modified", "created", "deleted"}]] :
        /\ \A j \in DOMAIN items : items[j].event_type = pending_changes[items[j].path]
        /\ \A j, k \in DOMAIN items : items[j].path = items[k].path => j = k}

\* process_pending_changes lines 106-114, called by the loop of lines 190-193
PassStart(items) ==
    /\ pass.at = "idle"
    /\ Pending # {}
    /\ ~Debouncing
    /\ items \in Items
    /\ pass' = [at |-> "iterating", items |-> items, from |-> Len(handled)]
    /\ UNCHANGED <<tableVars, progVars, lock, disk, storeVars, runVars, histVars, callVars,
                   pending_changes, last_event_time, clock, handled, arrived, os_events,
                   observer>>

\* Indexer._index_file as the watcher calls it (line 126), not in parallel mode
index_file(t, p) ==
    IF IsBlank(disk[p]) THEN t
    ELSE add_chunks(delete_by_path(t, RelPath(p)), FileRows(p))

\* lines 115-129: one item of the pass; an exception is logged
HandleItem(o) ==
    /\ pass.at = "iterating"
    /\ pass.items # <<>>
    /\ o \in {"ok", "raise"}
    /\ LET item == Head(pass.items)
       IN  /\ table' = IF o = "raise" THEN table
                       ELSE IF item.event_type = "deleted"
                       THEN delete_by_path(table, SrcPath(item.path))
                       ELSE IF disk[item.path] # Absent
                       THEN index_file(table, item.path)
                       ELSE table
           /\ handled' = Append(handled, [path |-> item.path, event_type |-> item.event_type,
                                          upto |-> Len(arrived), raised |-> o = "raise"])
    /\ cache' = IF table' # table THEN clear_cache(cache) ELSE cache
    /\ pass' = [pass EXCEPT !.items = Tail(@)]
    /\ UNCHANGED <<tableVars, progVars, lock, disk, cache_enabled, lastSearch, nsearch,
                   runVars, histVars, callVars, pending_changes, last_event_time, clock,
                   arrived, os_events, observer>>

\* line 132: self._pending_changes.clear()
PassClear ==
    /\ pass.at = "iterating"
    /\ pass.items = <<>>
    /\ pending_changes' = [p \in Paths |-> NoEvent]
    /\ pass' = NoPass
    /\ UNCHANGED <<tableVars, progVars, lock, disk, storeVars, runVars, histVars, callVars,
                   last_event_time, clock, handled, arrived, os_events, observer>>

NextWatch ==
    \/ \E p \in Paths, c \in WatchContents : WriteFile(p, c)
    \/ \E p \in Paths : RemoveFile(p)
    \/ \E p, q \in Paths : MoveFile(p, q)
    \/ Dispatch
    \/ QueuePut
    \/ QueueStamp
    \/ Tick
    \/ \E items \in Items : PassStart(items)
    \/ \E o \in {"ok", "raise"} : HandleItem(o)
    \/ PassClear

SpecWatch == InitWatch /\ [][NextWatch]_vars

\* ------------------------------------------------------------------ properties
Returned == pc = "done"

\* the run used the worker pool
Concurrent == UseParallel(cfg, files)

\* the complete chunk set of the file's current content, tagged b
FreshRows(p, b) ==
    SetToBag({Row(p, <<disk[p], i>>, Sha256(disk[p]), b) : i \in 1..NumChunks(disk[p])})

\* when the run started the store held exactly the chunks of the file's current
\* content: the content is unchanged since it was indexed
IndexedUnchanged(p) == \E b \in BranchTags : RowsOf(table0, p) = FreshRows(p, b)

\* C1: after a run without failure, the same index_path call again with
\* force=False on unedited files adds no chunk and removes none: the table is
\* the one the run started with
C1_ReindexUnchangedIsNoop ==
    (Returned /\ repeat /\ ~force /\ NoFailure)
        => (table = table0 /\ inserted = EmptyBag)

C1_Witness ==
    /\ Returned /\ repeat /\ ~force /\ NoFailure
    /\ Concurrent
    /\ \A p \in files : RowsOf(table, p) # EmptyBag

\* C2: a run with force=True without failure leaves every path whose content
\* is unchanged since it was indexed with as many chunks as before: all its rows
\* were inserted by this run, each exactly once
C2_ForceReplacesExactlyOnce ==
    (Returned /\ force /\ NoFailure)
        => \A p \in files :
              IndexedUnchanged(p)
                  => /\ count_rows(RowsOf(table, p)) = count_rows(RowsOf(table0, p))
                     /\ RowsOf(table, p) = FreshRows(p, current_branch)
                     /\ RowsOf(inserted, p) = RowsOf(table, p)

C2_Witness ==
    /\ Returned /\ force /\ NoFailure
    /\ Concurrent
    /\ \A p \in files : IndexedUnchanged(p) /\ RowsOf(table0, p) # EmptyBag

\* C3: when a run returns without failure, every stored chunk of a discovered
\* path carries the hash of that file's current content
C3_NoStaleChunkAfterRun ==
    (Returned /\ NoFailure)
        => \A r \in DOMAIN table :
              r.path \in files => r.file_hash = Sha256(disk[r.path])

\* C4: in every run the old chunks of a path are deleted before any new chunk of
\* it is inserted, and never after
C4_DeleteBeforeInsert == \A p \in Paths : order[p] # "bad"

C4_Witness ==
    /\ Concurrent
    /\ \E p \in files : order[p] = "del_ins" /\ RowsOf(table0, p) # EmptyBag

C6_NoCleanupWhenDisabled ==
    (~cfg.cleanup /\ pc # "idle")
        => \A p \in Paths \ files : RowsOf(table, p) = RowsOf(table0, p)

C6_Witness ==
    /\ Returned /\ ~cfg.cleanup /\ target = "dir"
    /\ \E p \in Paths : disk[p] = Absent /\ RowsOf(table, p) # EmptyBag

\* the file has to be indexed by this run: it passes should_index_file, is not
\* blank, and is forced or its stored hash is not the hash of its content
NeedsIndexing(p) ==
    /\ ~TooLarge(disk[p])
    /\ ~IsBlank(disk[p])
    /\ (force \/ Sha256(disk[p]) \notin get_file_hash(table0, p))

\* C7: a failure in the processing of some files does not make index_path
\* raise: every discovered file is handled, and every file that has no failure
\* of its own and has to be indexed ends with its complete chunk set stored
\* (a failed batch flush aside)
C7_FileFailureIsolated ==
    /\ pc = "raised" => files = {}
    /\ Returned
          => \A p \in files :
                /\ fpc[p] = "done"
                /\ (p \notin failed /\ ~batchFail /\ NeedsIndexing(p))
                      => /\ fres[p] = "indexed"
                         /\ RowsOf(table, p) = FreshRows(p, current_branch)

C7_Witness ==
    /\ Returned /\ Concurrent
    /\ \E p \in files, q \in files :
          /\ p \in failed /\ fres[p] = "error"
          /\ q \notin failed /\ RowsOf(inserted, q) # EmptyBag

\* the queue entries of a file that queued all its chunks
QueuedItems(p) == {Item(p, i) : i \in 1..NumChunks(disk[p])}

\* C8: in concurrent mode a chunk of a failed batch is not stored, every other
\* queued chunk is stored exactly once, and the queue is empty at the end
C8_FailedBatchDroppedOthersStored ==
    (Returned /\ Concurrent)
        => /\ queue = <<>>
           /\ \A p \in files :
                 fres[p] = "indexed"
                     => \A it \in QueuedItems(p) :
                           CopiesIn(ChunkOf(it), table)
                               = (IF it \in dropped THEN 0 ELSE 1)

C8_Witness ==
    /\ Returned /\ Concurrent
    /\ dropped # {}
    /\ afterDrop # {}
    /\ \A it \in afterDrop : BagIn(ChunkOf(it), table)

\* C9: every search returns what the same search returns without the cache
C9_CacheDoesNotChangeResults == lastSearch.result = lastSearch.fresh

\* C10: every call that changes the table leaves the query cache empty
C10_MutationEmptiesCache == [][table' # table => cache' = {}]_vars

\* a search call has been made
Called == call.op = "search" /\ outcome.kind # "none"

\* the call raised ValueError and handed no query to the engine
InvalidArguments ==
    outcome.kind = "raise" /\ outcome.error = "ValueError" /\ issued = <<>>

C12_ModeResolution ==
    Called
        => /\ call.mode # NoMode => outcome.mode = call.mode
           /\ (call.mode = NoMode /\ Truthy(call.query_text) /\ Truthy(call.query_vector))
                 => outcome.mode = "hybrid"
           /\ (call.mode = NoMode /\ ~Truthy(call.query_text) /\ Truthy(call.query_vector))
                 => outcome.mode = "vector"
           /\ (call.mode = NoMode /\ Truthy(call.query_text) /\ ~Truthy(call.query_vector))
                 => outcome.mode = "fts"
           /\ (outcome.kind = "return" /\ ~outcome.hit)
                 => issued # <<>> /\ issued[1].query_type = outcome.mode

C12_Witness ==
    /\ Called
    /\ call.mode = NoMode
    /\ outcome.kind = "return"
    /\ outcome.mode = "hybrid"
    /\ issued # <<>>
    /\ issued[1].query_type = "hybrid"

\* C13: when the engine cannot run the hybrid query, a hybrid search with a
\* query vector returns the vector search's results for it, and a hybrid search
\* with no query vector raises an error instead of returning a list
C13_HybridFallback ==
    (/\ Called
     /\ outcome.mode = "hybrid"
     /\ call.query_text.some
     /\ ~outcome.hit
     /\ outcome.engine.hybrid = "unavailable")
        => /\ Truthy(call.query_vector)
                 => /\ outcome.kind = "return"
                    /\ outcome.results
                          = post_filter(search_vector(table, call).results, call.min_score)
           /\ ~call.query_vector.some => outcome.kind = "raise"

\* C14: a keyword search returns every hit of the engine with the engine's own
\* score, whatever non-negative value it has
C14_KeywordScoreNative ==
    (/\ Called
     /\ outcome.mode = "fts"
     /\ outcome.kind = "return"
     /\ ~outcome.hit
     /\ outcome.engine.fts = "ok"
     /\ call.min_score = 0)
        => LET hits == ToList(table, issued[1])
           IN  outcome.results
                   = [i \in DOMAIN hits |->
                         [chunk |-> ChunkOfHit(hits[i]), score |-> hits[i].fts]]

\* C15: every returned result has score >= min_score, a scored result with
\* score >= min_score is returned (on the cached path and on the uncached one),
\* and in vector and hybrid mode every returned score lies in [0, 1]
C15_MinScoreThreshold ==
    (Called /\ outcome.kind = "return")
        => /\ \A i \in DOMAIN outcome.results :
                 outcome.results[i].score >= call.min_score
           /\ ~outcome.hit
                 => \A i \in DOMAIN outcome.scored :
                       outcome.scored[i].score >= call.min_score
                           => \E j \in DOMAIN outcome.results :
                                 outcome.results[j] = outcome.scored[i]
           /\ outcome.mode \in {"vector", "hybrid"}
                 => \A i \in DOMAIN outcome.results :
                       /\ 0 <= outcome.results[i].score
                       /\ outcome.results[i].score <= 100

C15_Witness ==
    /\ Called
    /\ outcome.kind = "return"
    /\ ~outcome.hit
    /\ cache # {}
    /\ call.min_score = 50
    /\ \E i \in DOMAIN outcome.results : outcome.results[i].score = 50
    /\ \E i \in DOMAIN outcome.scored : outcome.scored[i].score < 50

\* f occurs in s
Contains(s, f) == \E k \in 0..(Len(s) - Len(f)) : SubSeq(s, k + 1, k + Len(f)) = f

StartsWith(s, f) == Len(f) <= Len(s) /\ SubSeq(s, 1, Len(f)) = f

EndsWith(s, f) == Len(f) <= Len(s) /\ SubSeq(s, Len(s) - Len(f) + 1, Len(s)) = f

\* the filters the caller supplied
SuppliedFilters(a) ==
    {k \in {"extensions", "directories", "chunk_types", "languages", "file_filter",
            "branch_filter"} : Truthy(a[k])}

\* the chunk satisfies every filter the caller supplied
Satisfies(chunk, a) ==
    /\ Truthy(a.extensions)
          => \E i \in DOMAIN a.extensions.v : EndsWith(chunk.path, a.extensions.v[i])
    /\ Truthy(a.directories)
          => \E i \in DOMAIN a.directories.v : StartsWith(chunk.path, a.directories.v[i])
    /\ Truthy(a.chunk_types) => chunk.chunk_type \in Range(a.chunk_types.v)
    /\ Truthy(a.languages) => chunk.language \in Range(a.languages.v)
    /\ Truthy(a.file_filter) => Contains(chunk.path, a.file_filter.v)
    /\ Truthy(a.branch_filter) => chunk.branch = a.branch_filter.v

\* C16: every query handed to the engine carries one condition per supplied
\* filter and no predicate when no filter is supplied, and every returned chunk
\* satisfies every supplied filter: an extension suffix, a directory prefix, the
\* chunk types, the languages, the file filter as a substring of the path, the
\* branch
C16_FiltersConjoined ==
    (Called /\ outcome.kind = "return" /\ ~outcome.hit)
        => /\ \A i \in DOMAIN issued :
                 /\ issued[i].where.some <=> SuppliedFilters(call) # {}
                 /\ Len(issued[i].where.v) = Cardinality(SuppliedFilters(call))
           /\ \A i \in DOMAIN outcome.results : Satisfies(outcome.results[i].chunk, call)

\* the enhancer call op has returned
Enhanced(op) == call.op = op /\ outcome.kind = "return"

\* two results of one path whose line ranges overlap by the threshold or more
Collide(a, b, overlap_threshold) ==
    /\ a.chunk.path = b.chunk.path
    /\ AtLeast(calculate_overlap(a.chunk.start_line, a.chunk.end_line,
                                 b.chunk.start_line, b.chunk.end_line),
               overlap_threshold)

\* result j is scanned before result i: higher score, or equal score and earlier
ScannedBefore(results, j, i) ==
    \/ results[j].score > results[i].score
    \/ results[j].score = results[i].score /\ j < i

\* K is the set of kept positions of the greedy scan of each path
GreedyKept(results, K, overlap_threshold) ==
    \A i \in DOMAIN results :
        i \in K <=> \A j \in K :
                        ScannedBefore(results, j, i)
                            => ~Collide(results[i], results[j], overlap_threshold)

\* the bag of the results at the positions K
BagAt(results, K) ==
    [r \in {results[i] : i \in K} |-> Cardinality({i \in K : results[i] = r})]

\* deduplicate returns the results of the greedy scan, and no two of them collide
DedupIsGreedy ==
    /\ \E K \in SUBSET DOMAIN call.results :
          /\ GreedyKept(call.results, K, call.overlap_threshold)
          /\ BagOfSeq(outcome.results) = BagAt(call.results, K)
    /\ \A i, j \in DOMAIN outcome.results :
          i # j => ~Collide(outcome.results[i], outcome.results[j],
                            call.overlap_threshold)

SortedByScore(results) ==
    \A i \in 1..(Len(results) - 1) : results[i].score >= results[i + 1].score

\* C18: deduplicate keeps every result when all paths differ, what it returns
\* for a path is what it returns for that path's results alone, its output is
\* a sub-multiset of its input, and its output is sorted by descending score
C18_DedupPerPathSorted ==
    Enhanced("deduplicate")
        => /\ (\A i, j \in DOMAIN call.results :
                  i # j => call.results[i].chunk.path # call.results[j].chunk.path)
                 => BagOfSeq(outcome.results) = BagOfSeq(call.results)
           /\ \A p \in Paths :
                 FileResults(outcome.results, p)
                     = deduplicate(FileResults(call.results, p), call.overlap_threshold)
           /\ BagOfSeq(outcome.results) \sqsubseteq BagOfSeq(call.results)
           /\ SortedByScore(outcome.results)

C18_Witness ==
    /\ Enhanced("deduplicate")
    /\ Len(call.results) = 2
    /\ call.results[1].chunk.path # call.results[2].chunk.path
    /\ call.results[1].chunk.start_line = call.results[2].chunk.start_line
    /\ call.results[1].score < call.results[2].score
    /\ outcome.results = <<call.results[2], call.results[1]>>

\* the score the claim gives result i of the call
ClaimedScore(i) ==
    LET timestamps == {call.results[k].chunk.indexed_at : k \in DOMAIN call.results}
        min_ts == MinOf(timestamps)
        max_ts == MaxOf(timestamps)
    IN  Min2(100, call.results[i].score
                     + (call.recency_weight * (call.results[i].chunk.indexed_at - min_ts))
                           \div (max_ts - min_ts))

Claimed == [i \in DOMAIN call.results |->
               [chunk |-> call.results[i].chunk, score |-> ClaimedScore(i)]]

\* weight > 0 and at least two distinct timestamps
Reranked ==
    /\ Enhanced("rerank_by_recency")
    /\ call.recency_weight > 0
    /\ \E i, j \in DOMAIN call.results :
          call.results[i].chunk.indexed_at # call.results[j].chunk.indexed_at

\* result j of the call comes before result i in the output
RankedFirst(j, i) ==
    \A k, l \in DOMAIN outcome.results :
        (outcome.results[k] = Claimed[j] /\ outcome.results[l] = Claimed[i]) => k < l

C20_ExpandedRangeWithinFile ==
    (Enhanced("expand_context") /\ call.project_root.some)
        => \A i \in DOMAIN call.results :
              LET c == disk[call.results[i].chunk.path]
                  n == NumLines(c)
                  old == call.results[i].chunk
                  new == outcome.results[i].chunk
              IN  (c \notin {Absent, Unreadable} /\ n >= 1)
                      => /\ new.start_line = Max2(1, old.start_line - call.lines_before)
                         /\ new.end_line = Min2(n, old.end_line + call.lines_after)
                         /\ 1 <= new.start_line
                         /\ new.start_line <= new.end_line
                         /\ new.end_line <= n
                         /\ new.text = [k \in 1..(new.end_line - new.start_line + 1)
                                           |-> <<c, new.start_line + k - 1>>]

\* C21: expand_context returns one result per input result, in the same order and
\* with the same score, whatever the state of the source file (present, missing,
\* unreadable, empty, shorter than the chunk's range); a result whose expansion
\* fails (no file, unreadable file, a range the chunk model rejects) is returned
\* as it was, and an expanded result differs from the original at most in text,
\* start_line and end_line
C21_ExpandKeepsResults ==
    Enhanced("expand_context")
        => /\ Len(outcome.results) = Len(call.results)
           /\ \A i \in DOMAIN call.results :
                 LET old == call.results[i]
                     new == outcome.results[i]
                     c == disk[old.chunk.path]
                     n == NumLines(c)
                 IN  /\ new.score = old.score
                     /\ \A f \in DOMAIN old.chunk \ {"text", "start_line", "end_line"} :
                           new.chunk[f] = old.chunk[f]
                     /\ DOMAIN new.chunk = DOMAIN old.chunk
                     /\ (\/ ~call.project_root.some
                         \/ c \in {Absent, Unreadable}
                         \/ n = 0) => new = old

\* three results: one expanded, one of a missing file, one of a file that ends
\* before the chunk starts
C21_Witness ==
    /\ Enhanced("expand_context")
    /\ call.project_root.some
    /\ Len(call.results) = 3
    /\ call.results[1].chunk.path = "a.py"
    /\ disk["a.py"] \in {Absent, Unreadable, "n0"}
    /\ outcome.results[1] = call.results[1]
    /\ call.results[2].chunk.path = "b.py"
    /\ outcome.results[2].chunk.text # call.results[2].chunk.text
    /\ outcome.results[2].score = call.results[2].score

\* the list ctx_search has after de-duplication (when enabled) and re-ranking
CtxRanked ==
    LET found == Take(call.found,
                      IF call.deduplicate = "False" THEN call.limit
                      ELSE 2 * call.limit)
    IN  rerank_by_recency(IF call.deduplicate = "False" THEN found
                          ELSE deduplicate(found, OverlapThresholdDefault),
                          RecencyWeightDefault)

\* C22: ctx_search de-duplicates (unless switched off), re-ranks by recency,
\* trims to the limit and only then expands context: for every limit >= 0 it
\* returns at most limit results, none for limit 0, and the i-th result returned
\* is the i-th entry of the de-duplicated, re-ranked list (expanded when context
\* expansion is on, its score and path being those of that entry)
C22_TrimAfterRerank ==
    Enhanced("ctx_search")
        => /\ Len(outcome.results) <= call.limit
           /\ outcome.count = Len(outcome.results)
           /\ call.limit = 0 => outcome.results = <<>>
           /\ ~outcome.error
                 => /\ Len(outcome.results) = Min2(call.limit, Len(CtxRanked))
                    /\ \A i \in DOMAIN outcome.results :
                          /\ outcome.results[i].score = CtxRanked[i].score
                          /\ outcome.results[i].path = CtxRanked[i].chunk.path
                          /\ call.expand_context # "True"
                                => outcome.results[i] = Formatted(CtxRanked[i])

\* four rows match, de-duplication drops one and the limit cuts one more
C22_Witness ==
    /\ Enhanced("ctx_search")
    /\ ~outcome.error
    /\ call.limit = 2
    /\ call.deduplicate # "False"
    /\ Len(call.found) = 4
    /\ Len(CtxRanked) = 3
    /\ Len(outcome.results) = 2
    /\ outcome.results[1].score > call.found[1].score

\* the file loop of the run (serial or concurrent) has ended
LoopEnded == pc \in {"final_store", "cleanup", "done"}


\* the callback was invoked once per file so far: the events are numbered 1, 2,
\* ... in order, each carries total = N, and no file has two events
OncePerFile ==
    /\ \A i \in DOMAIN events :
          /\ events[i].current = i
          /\ events[i].total = Cardinality(files)
          /\ events[i].filename \in files
    /\ \A i, j \in DOMAIN events : events[i].filename = events[j].filename => i = j
    /\ LoopEnded => Len(events) = Cardinality(files)

\* the position of a file's future in the completion order
Position(p) == CHOOSE i \in DOMAIN completed : completed[i] = p

\* C23 as stated: with a progress callback, index_path over N discovered files
\* invokes it exactly N times, once per file, with total = N and current = 1, 2,
\* ..., N in that order, and in concurrent mode the k-th event is for the k-th
\* worker to complete
C23_EventsInCompletionOrder ==
    reporter.some
        => /\ OncePerFile
           /\ Concurrent
                 => /\ Len(events) <= Len(completed)
                    /\ \A i \in DOMAIN events : events[i].filename = completed[i]

\* C23 amended: in concurrent mode an event is for a worker that has completed;
\* the workers that had completed when the main thread began to wait come first,
\* in any order, the others follow in completion order
C23_EventsAfterCompletion ==
    reporter.some
        => /\ OncePerFile
           /\ Concurrent
                 => /\ Taken \subseteq Range(completed)
                    /\ \A i, j \in DOMAIN events :
                          i < j
                            => /\ events[j].filename \in early.finished
                                     => events[i].filename \in early.finished
                               /\ events[i].filename \notin early.finished
                                     => Position(events[i].filename)
                                            < Position(events[j].filename)

\* a concurrent run over two files, one skipped and one failed, has reported both,
\* the second after the main thread began to wait
C23_Witness ==
    /\ reporter.some
    /\ pc = "done"
    /\ Concurrent
    /\ Len(events) = 2
    /\ events[2].current = 2
    /\ events[2].filename \notin early.finished
    /\ "skipped" \in Range(fres)
    /\ "error" \in Range(fres)

\* the directory of the scenario: a.py, b.py and a .gitignore that lists b.py
GitignoreScenario ==
    /\ Enhanced("discover_files")
    /\ call.dir = {A_py, B_py, Gitignore}
    /\ call.gitignore = <<B_py>>

\* C24 as stated: for a directory that contains a.py, b.py and a .gitignore
\* listing b.py, discovery with the default configuration returns only a.py
C24_DiscoversOnlyA ==
    GitignoreScenario => outcome.files = {A_py}

\* C24 amended: it returns a.py and the .gitignore file itself, not b.py; a file
\* whose name the last line of .gitignore lists is never returned
C24_DiscoversAllButIgnored ==
    /\ GitignoreScenario => outcome.files = {A_py, Gitignore}
    /\ Enhanced("discover_files")
          => /\ outcome.files \subseteq call.dir
             /\ C_pyc \notin outcome.files
             /\ (/\ Gitignore \in call.dir
                 /\ call.gitignore # <<>>
                 /\ call.gitignore[Len(call.gitignore)] = B_py)
                    => B_py \notin outcome.files

C24_Witness ==
    /\ GitignoreScenario
    /\ B_py \notin outcome.files
    /\ A_py \in outcome.files

\* the lines of the content of the call, as the chunkers number them
ContentLines == Split(call.content, <<NL>>)

\* a line that is a header: one to six #, whitespace, and something more
IsHeaderLine(line) ==
    \E h \in 1..6 :
       /\ Len(line) >= h + 2
       /\ \A k \in 1..h : line[k] = "#"
       /\ line[h + 1] \in Whitespace

\* the text of a header line: the line without its leading #s and the whitespace
\* around the rest
HeaderText(line) ==
    LET h == CHOOSE n \in 0..Len(line) :
                 /\ \A k \in 1..n : line[k] = "#"
                 /\ n < Len(line) => line[n + 1] # "#"
    IN  Strip(SubSeq(line, h + 1, Len(line)))

C26_NoHeaderOneBlock ==
    (/\ Enhanced("markdown_chunk")
     /\ ~Blank(call.content)
     /\ \A j \in DOMAIN ContentLines : ~IsHeaderLine(ContentLines[j]))
        => /\ Len(outcome.chunks) = 1
           /\ outcome.chunks[1].chunk_type = "block"
           /\ outcome.chunks[1].name = None
           /\ outcome.chunks[1].start_line = 1
           /\ outcome.chunks[1].end_line = Len(ContentLines)

\* C27: the paragraph fallback chunker yields no chunk for empty or
\* whitespace-only input, and for any other input without a blank-line separator
\* exactly one chunk, typed block, whose text is the full input and whose line
\* range is 1 to the line count
C27_NoBreakOneBlock ==
    Enhanced("fallback_chunk")
        => /\ Blank(call.content) => outcome.chunks = <<>>
           /\ (~Blank(call.content) /\ Occurrences(call.content, <<NL, NL>>) = {})
                 => /\ Len(outcome.chunks) = 1
                    /\ outcome.chunks[1].chunk_type = "block"
                    /\ outcome.chunks[1].text = call.content
                    /\ outcome.chunks[1].start_line = 1
                    /\ outcome.chunks[1].end_line = Len(ContentLines)

\* a run that queues its chunks: batch mode in a concurrent run
QueuedRun == cfg.batch /\ Concurrent

\* the entries a worker has appended to the queue so far
Appended == UNION {{Item(p, i) : i \in 1..(next[p] - 1)} : p \in files}

\* the places of a queue entry: in the queue, in a batch being embedded, in the
\* table, or in a batch that failed
InQueue(it) == Cardinality({k \in DOMAIN queue : queue[k] = it})

InBatches(it) ==
    Cardinality({wk \in UNION {{w} \X DOMAIN held[w] : w \in Workers} :
                    held[wk[1]][wk[2]] = it})

Stored(it) == CopiesIn(ChunkOf(it), inserted)

Failed(it) == IF it \in dropped THEN 1 ELSE 0

\* C28: in a concurrent run every chunk appended to the embedding queue is
\* drained into exactly one batch, neither lost nor embedded or stored twice,
\* and the queue is empty when index_path returns, whatever was left in it
\* having been flushed
C28_EachChunkInOneBatch ==
    QueuedRun =>
        /\ \A it \in Appended :
               /\ InQueue(it) + InBatches(it) + Stored(it) + Failed(it) = 1
               /\ pc \in {"cleanup", "done"} => Stored(it) + Failed(it) = 1
        /\ pc \in {"cleanup", "done"} =>
               queue = <<>> /\ \A w \in Workers : held[w] = <<>>

\* the end-of-run flush took a batch smaller than the batch size after a worker's
\* batch was stored, and the run has returned
C28_Witness ==
    /\ QueuedRun
    /\ pc = "done"
    /\ Appended # {}
    /\ \A it \in Appended : Stored(it) = 1
    /\ Cardinality(Appended) % BatchSize # 0
    /\ Cardinality(Appended) > BatchSize

\* the entry whose append made worker p decide to flush: its latest
Trigger(p) == Item(p, next[p] - 1)

\* C29 as stated: in a concurrent run every batch a worker drains before the
\* end-of-run flush holds at least batch_size chunks
C29_WorkerBatchesFull ==
    QueuedRun =>
        \A p \in files : fpc[p] = "bstore" => Len(held[p]) >= BatchSize

\* C29: in a concurrent run a worker flushes only after its own append brought
\* the queue to the batch size, and the batch it drains is non-empty and holds at
\* least batch_size chunks unless another worker's flush has already drained
\* the chunk whose append started this flush
C29_WorkerBatchesFullUnlessDrained ==
    QueuedRun =>
        \A p \in files :
            /\ fpc[p] \in {"drain", "bstore"} => next[p] > 1
            /\ (fpc[p] = "drain" /\ InQueue(Trigger(p)) = 1) => Len(queue) >= BatchSize
            /\ fpc[p] = "bstore" => held[p] # <<>>
            /\ (fpc[p] = "bstore" /\ Trigger(p) \in Range(held[p]))
                  => Len(held[p]) >= BatchSize
            /\ fpc[p] # "bstore" => held[p] = <<>>

\* a worker embeds a batch smaller than the batch size: the chunk that started
\* its flush went into another worker's batch
C29_Witness ==
    /\ QueuedRun
    /\ \E p \in files :
          /\ fpc[p] = "bstore"
          /\ Len(held[p]) < BatchSize
          /\ Trigger(p) \notin Range(held[p])
          /\ Stored(Trigger(p)) = 1

\* thread w is embedding or storing a batch (lines 416-460)
Embedding(w) == held[w] # <<>>

\* C30: no thread holds the queue lock while a batch is being embedded or
\* stored, so a worker that has a chunk to queue can append it meanwhile
C30_EmbedsOutsideLock ==
    (\E w \in Workers : Embedding(w)) =>
        /\ lock = Free
        /\ \A q \in files : (pc = "indexing" /\ fpc[q] = "enqueue") => ENABLED Enqueue(q)

\* while one worker embeds its batch, another has appended a chunk to the queue
\* and is about to append the next
C30_Witness ==
    \E p, q \in files :
        /\ p # q
        /\ fpc[p] = "bstore"
        /\ fpc[q] = "enqueue"
        /\ \E k \in DOMAIN queue : queue[k].path = q
        /\ lock = Free

\* C31: under every interleaving of concurrent first accesses to
\* VectorStore.table every caller gets a usable table and none raises, at most
\* one caller creates the table and the others open it; within index_path the
\* calling thread has the table before a worker reaches it
C31_TableCreatedOnce ==
    call.op = "table" =>
        /\ Cardinality(creators) <= 1
        /\ \A c \in Callers :
               /\ tpc[c] \notin {"raised", "returned_none"}
               /\ tpc[c] = "returned" =>
                      /\ table_handle = Opened
                      /\ TableName \in table_names
                      /\ (c \notin creators /\ seen[c] = "absent") => creators # {}
               /\ (call.in_index_path /\ c # Main /\ tpc[c] # "idle")
                      => tpc[Main] = "returned"

\* three callers raced: one created the table, one found it existing when it
\* tried to create it, and all have returned
C31_Witness ==
    /\ call.op = "table"
    /\ ~call.in_index_path
    /\ \A c \in Callers : tpc[c] = "returned"
    /\ Cardinality(creators) = 1
    /\ \E c \in Callers \ creators : seen[c] = "absent"

\* C32: delete_by_path and delete_by_branch return exactly the number of chunks
\* they removed, also when other threads insert or delete chunks meanwhile
C32_DeleteReturnsRemoved ==
    (Deleting /\ outcome.kind = "return") => outcome.deleted = outcome.removed

\* C33: after any index run, also one in which an embedding call or a store
\* insert failed, the stored chunks of each path are exactly its chunks from
\* before the run or exactly the complete chunk set of its current content,
\* never empty after the delete and never a part of the set
C33_ReplacementAllOrNothing ==
    Returned
        => \A p \in Paths :
              \/ RowsOf(table, p) = RowsOf(table0, p)
              \/ RowsOf(table, p) = FreshRows(p, current_branch)

\* when the run started the store held some but not all chunks of the file's
\* current content: a batch or an insert of the run that indexed it had failed
StoredInPart(p) ==
    /\ RowsOf(table0, p) # EmptyBag
    /\ RowsOf(table0, p) # FreshRows(p, current_branch)
    /\ \A r \in DOMAIN RowsOf(table0, p) : BagIn(r, FreshRows(p, current_branch))

\* C34: a file some of whose chunks were not stored because a batch or an
\* insert failed is indexed again by the next run with force=False, not skipped
\* as unchanged
C34_IncompleteFileReindexed ==
    (Returned /\ ~force)
        => \A p \in files :
              (StoredInPart(p) /\ p \notin failed) => fres[p] # "skipped"

\* C35: index_path on a single file changes only the chunks of that file
C35_SingleFileRunKeepsOthers ==
    (target \in Paths /\ pc # "idle")
        => \A q \in Paths \ {target} : RowsOf(table, q) = RowsOf(table0, q)

\* the run is tagged with a branch
Tagged == pc # "idle" /\ current_branch # NoBranch

\* the rows of a bag that carry another tag than the run's
OfOtherBranch(t) ==
    [r \in {x \in DOMAIN t : x.branch # current_branch} |-> t[r]]

\* C36 as stated: a run tagged with a branch deletes no chunk tagged with a
\* different branch
C36_OtherBranchChunksKept ==
    Tagged => \A p \in Paths :
                 OfOtherBranch(RowsOf(table, p)) = OfOtherBranch(RowsOf(table0, p))

\* C36: a run tagged with branch b deletes no chunk of a path that it does not
\* index again and that either was discovered or has no chunk tagged b; of a
\* path it indexes again, and of an undiscovered path with a chunk tagged b, it
\* deletes the chunks of every branch
C36_OtherBranchChunksKeptElsewhere ==
    Tagged => \A p \in Paths :
                 \/ order[p] # "none"
                 \/ p \notin files /\ p \in get_indexed_files_by_branch(table0, current_branch)
                 \/ RowsOf(table, p) = RowsOf(table0, p)

\* a run tagged dev with the cleanup enabled has returned: the chunks of a
\* removed file tagged main are still stored
C36_Witness ==
    /\ Returned /\ Tagged /\ cfg.cleanup /\ ~cleanFail
    /\ target = "dir"
    /\ \E p \in Paths \ files :
          /\ RowsOf(table, p) # EmptyBag
          /\ OfOtherBranch(RowsOf(table, p)) = RowsOf(table, p)
    /\ \E q \in files : order[q] # "none"

\* C40: FallbackChunker.chunk terminates for every input and every
\* max_chunk_size and chunk_overlap, chunk_overlap >= max_chunk_size included
C40_ChunkTerminates == <>(call.op = "chunk" => outcome.kind = "return")

\* the observer is about to make the _queue_change call for a deleted file that
\* is in the index and still gone
QueuesDeleted(p) ==
    /\ observer.calls # <<>>
    /\ ~observer.stamping
    /\ Head(observer.calls) = QueueChange(p, "deleted")
    /\ disk[p] = Absent
    /\ RowsOf(table, RelPath(p)) # EmptyBag

\* C37: when a watched file that is in the index is deleted or moved away, the
\* watcher queues a deleted event for it, and the pass that handles the event
\* removes the file's chunks from the index
C37_DeletedFileLeavesIndex ==
    /\ [][\A p \in Paths :
            (QueuesDeleted(p) /\ observer' # observer) => pending_changes'[p] = "deleted"]_vars
    /\ [](\A j \in DOMAIN handled :
            (j = Len(handled) /\ handled[j].event_type = "deleted" /\ ~handled[j].raised)
                => RowsOf(table, RelPath(handled[j].path)) = EmptyBag)

\* the items the pass in progress has handled
HandledInPass == SubSeq(handled, pass.from + 1, Len(handled))

\* C38: a pass handles nothing while less than debounce_seconds have passed
\* since the latest queued event; a pass that runs handles each pending path
\* exactly once, with the latest event type recorded for it, and leaves no
\* pending change
C38_DebouncedPassHandlesEachOnce ==
    /\ [][(pass.at = "idle" /\ pass'.at = "iterating")
            => (arrived # <<>> => clock - arrived[Len(arrived)].time >= DebounceTenths)]_vars
    /\ [][(pass.at = "iterating" /\ pass'.at = "idle")
            => /\ \A p \in Pending :
                    Cardinality({j \in DOMAIN HandledInPass :
                                    /\ HandledInPass[j].path = p
                                    /\ HandledInPass[j].event_type = pending_changes[p]}) = 1
               /\ \A j \in DOMAIN HandledInPass : HandledInPass[j].path \in Pending
               /\ \A p \in Paths : pending_changes'[p] = NoEvent]_vars

\* C39: every change that was queued is still pending or was handled by a pass
\* after it was queued, also when it arrived while a pass was running
C39_NoQueuedChangeLost ==
    \A j \in DOMAIN arrived :
        \/ pending_changes[arrived[j].path] # NoEvent
        \/ \E k \in DOMAIN handled :
              handled[k].path = arrived[j].path /\ handled[k].upto >= j

====
